---- MODULE Spec2Model ----
(***************************************************************************)
(* Goal-funding projection and purchase audit of nh1124/AssetManagement.   *)
(*                                                                         *)
(* Numbers are exact rationals <<n, d>> (d > 0, lowest terms).  Decimal    *)
(* arithmetic is exact.  A float is modelled by the exact value of the     *)
(* expression that computes it; its rounding error is far below every      *)
(* distance the program observes, except in one place: round(x, 1) of a    *)
(* sum whose exact value lies on a rounding boundary goes the way the      *)
(* rounding error of the summation points.  There the summation is also    *)
(* carried out in binary floating point, every operation rounded to        *)
(* nearest-even at FloatBits significant bits (53 in CPython, fewer here), *)
(* and the sign of its error decides.  Dates are <<year, month, day>>      *)
(* triples of the proleptic Gregorian calendar, as datetime.date.          *)
(***************************************************************************)
EXTENDS Integers, Sequences, FiniteSets, TLC

VARIABLES
    lifeGoals,    \* rows of the life_goal table (src/src/models/schema.py), in query order
    lifeEvents,   \* rows of the life_events table (backend/app/models.py), in query order
    simConfig,    \* the client's simulation_configs row: <<>> (none) or <<row>>
    rng,          \* state of the process-wide numpy generator (np.random)
    lastOp,       \* history: the operation that last returned normally ("none" at the start)
    accounts,     \* rows of the accounts table (backend/app/models.py), in id order
    transactions, \* rows of the transactions table (backend/app/models.py), in id order
    journalEntries,    \* rows of the journal_entries table, in id order
    lastRecorded,      \* history: <<>> or <<the id of the transaction recorded last and
                       \* the accounts table as it was before that>>
    positions,         \* rows of the asset_position table (src/src/models/schema.py), in id order
    assetTransactions, \* DEPRECIATION rows of the transaction table (src/src/models/schema.py)
    result        \* what the operation in progress returned (or that it raised),
                  \* until the caller has taken it; Idle between operations

ledger == <<accounts, transactions, journalEntries, lastRecorded>>
assetBook == <<positions, assetTransactions>>

vars == <<lifeGoals, lifeEvents, simConfig, rng, lastOp, ledger, assetBook, result>>

----------------------------------------------------------------------------
(* Bounds of the model *)

MaxGoals == 2        \* rows in life_goal
MaxEvents == 3       \* rows in life_events
FloatBits == 11      \* significant bits of a float (stands for the 53 of a double)

----------------------------------------------------------------------------
(* Exact rational arithmetic standing for float / Decimal arithmetic *)

Abs(x) == IF x < 0 THEN -x ELSE x

RECURSIVE GCD(_, _)
GCD(a, b) == IF b = 0 THEN a ELSE GCD(b, a % b)

Rat(n, d) ==
    LET s == IF d < 0 THEN -1 ELSE 1
        g == GCD(Abs(n), Abs(d))
    IN  <<(s * n) \div g, (s * d) \div g>>

R(i) == <<i, 1>>

RNeg(a) == <<-a[1], a[2]>>

RAdd(a, b) ==
    IF a[2] = 1 /\ b[2] = 1 THEN <<a[1] + b[1], 1>>
    ELSE LET g == GCD(a[2], b[2])
         IN  Rat(a[1] * (b[2] \div g) + b[1] * (a[2] \div g), (a[2] \div g) * b[2])

RSub(a, b) == RAdd(a, RNeg(b))

RMul(a, b) ==
    IF a[2] = 1 /\ b[2] = 1 THEN <<a[1] * b[1], 1>>
    ELSE LET g1 == GCD(Abs(a[1]), b[2])
             g2 == GCD(Abs(b[1]), a[2])
         IN  Rat((a[1] \div g1) * (b[1] \div g2), (a[2] \div g2) * (b[2] \div g1))

RInv(a) == IF a[1] < 0 THEN <<-a[2], -a[1]>> ELSE <<a[2], a[1]>>

RDiv(a, b) == RMul(a, RInv(b))

RLt(a, b) ==
    IF a[2] = b[2] THEN a[1] < b[1]
    ELSE LET g == GCD(a[2], b[2])
         IN  a[1] * (b[2] \div g) < b[1] * (a[2] \div g)

RLe(a, b) == ~RLt(b, a)

RMin(a, b) == IF RLt(b, a) THEN b ELSE a

RMax(a, b) == IF RLt(a, b) THEN b ELSE a

\* a ** k for an int k >= 0, by repeated squaring
RECURSIVE RPow(_, _)
RPow(a, k) ==
    IF k = 0 THEN R(1)
    ELSE LET half == RPow(a, k \div 2)
             square == RMul(half, half)
         IN  IF k % 2 = 0 THEN square ELSE RMul(a, square)

RFloor(a) == a[1] \div a[2]

\* Python's int(): truncation toward zero
Trunc(a) == IF a[1] < 0 THEN -((-a[1]) \div a[2]) ELSE a[1] \div a[2]

\* Decimal.quantize(Decimal('1'), ROUND_HALF_UP): ties away from zero
RoundHalfUp(a) ==
    LET m == (2 * Abs(a[1]) + a[2]) \div (2 * a[2])
    IN  IF a[1] < 0 THEN -m ELSE m

\* Decimal.quantize(Decimal('1')) under the default context: ROUND_HALF_EVEN
RoundHalfEven(a) ==
    LET f == RFloor(a)
        twice == RSub(RMul(R(2), a), R(2 * f))     \* 2 * (a - floor a), in [0, 2)
    IN  IF RLt(twice, R(1)) THEN f
        ELSE IF RLt(R(1), twice) THEN f + 1
        ELSE IF f % 2 = 0 THEN f ELSE f + 1

----------------------------------------------------------------------------
(* Binary floating point: round to nearest, ties to even, FloatBits bits *)

RECURSIVE Pow2(_)
Pow2(k) == IF k = 0 THEN 1 ELSE 2 * Pow2(k - 1)

\* An integer i >= 2^FloatBits: drop low bits until FloatBits remain.
\* <<kept, weight of one kept unit, dropped part>>
RECURSIVE ShiftDown(_, _, _)
ShiftDown(i, unit, dropped) ==
    IF i < Pow2(FloatBits) THEN <<i, unit, dropped>>
    ELSE ShiftDown(i \div 2, 2 * unit, dropped + unit * (i % 2))

\* Long division r / d continued below the binary point until the quotient
\* has FloatBits bits. <<quotient, remainder, number of fractional bits>>
RECURSIVE ShiftUp(_, _, _, _)
ShiftUp(i, r, d, f) ==
    IF i >= Pow2(FloatBits - 1) THEN <<i, r, f>>
    ELSE IF 2 * r >= d THEN ShiftUp(2 * i + 1, 2 * r - d, d, f + 1)
    ELSE ShiftUp(2 * i, 2 * r, d, f + 1)

\* The float nearest to the positive rational n / d
FlPos(n, d) ==
    LET i == n \div d
        r == n % d
    IN  IF i >= Pow2(FloatBits)
        THEN LET sh == ShiftDown(i, 1, 0)
                 \* dropped part against half a kept unit; r is a sticky rest
                 up == \/ 2 * sh[3] > sh[2]
                       \/ 2 * sh[3] = sh[2] /\ (r > 0 \/ sh[1] % 2 = 1)
             IN  R((sh[1] + (IF up THEN 1 ELSE 0)) * sh[2])
        ELSE LET su == ShiftUp(i, r, d, 0)
                 up == \/ 2 * su[2] > d
                       \/ 2 * su[2] = d /\ su[1] % 2 = 1
             IN  Rat(su[1] + (IF up THEN 1 ELSE 0), Pow2(su[3]))

\* The float nearest to a rational
Fl(x) == IF x[1] = 0 THEN R(0)
         ELSE IF x[1] < 0 THEN RNeg(FlPos(-x[1], x[2]))
         ELSE FlPos(x[1], x[2])

FAdd(a, b) == Fl(RAdd(a, b))
FMul(a, b) == Fl(RMul(a, b))
FDiv(a, b) == Fl(RDiv(a, b))

----------------------------------------------------------------------------
(* datetime.date *)

IsLeap(y) == y % 4 = 0 /\ (y % 100 # 0 \/ y % 400 = 0)

DaysBeforeMonth(y, m) ==
    <<0, 31, 59, 90, 120, 151, 181, 212, 243, 273, 304, 334>>[m]
    + (IF m > 2 /\ IsLeap(y) THEN 1 ELSE 0)

ToOrdinal(dt) ==
    LET y == dt[1] - 1
    IN  y * 365 + y \div 4 - y \div 100 + y \div 400
        + DaysBeforeMonth(dt[1], dt[2]) + dt[3]

\* (a - b).days
DaysBetween(a, b) == ToOrdinal(a) - ToOrdinal(b)

\* date.today(): the day on which every modelled call is made
Today == <<2025, 6, 15>>

----------------------------------------------------------------------------
(* Optional arguments: None is <<>>, a given value v is <<v>> *)

None == <<>>
Some(v) == <<v>>
OrDefault(opt, dflt) == IF opt = None THEN dflt ELSE opt[1]

----------------------------------------------------------------------------
(* life_goal rows: created and deleted on the goals page *)

GoalTargets == {0, 3, 500000}
GoalDates == {<<2025, 6, 15>>, <<2026, 1, 1>>, <<2026, 7, 20>>}

LifeGoal(target, dt) == [target_amount |-> target, target_date |-> dt]

RemoveAt(s, i) == SubSeq(s, 1, i - 1) \o SubSeq(s, i + 1, Len(s))

----------------------------------------------------------------------------
(* PurchaseAuditor (src/src/strategy/auditor.py) *)

RECOGNITION_THRESHOLD == 30000

DefaultLiquidAssets == 1000000
DefaultMonthlyExpenses == 200000

RECURSIVE TradeOffsFrom(_, _, _)
TradeOffsFrom(purchase_price, goals, i) ==
    IF i > Len(goals) THEN <<>>
    ELSE LET target == goals[i].target_amount
             rest == TradeOffsFrom(purchase_price, goals, i + 1)
         IN  IF target <= 0 THEN rest
             ELSE LET impact_pct == RMul(RDiv(R(purchase_price), R(target)), R(100))
                      prob_reduction == RMin(RMul(impact_pct, <<1, 2>>), R(20))
                  IN  IF RLt(R(1), prob_reduction)
                      THEN <<[goal |-> i,
                              current_probability |-> R(85),
                              new_probability |-> RSub(R(85), prob_reduction),
                              probability_change |-> RNeg(prob_reduction)]>> \o rest
                      ELSE rest

calculate_trade_offs(purchase_price, goals) == TradeOffsFrom(purchase_price, goals, 1)

\* make_decision with the runway rules tried before the threshold rule
make_decision_runway_first(price, daily_cost, runway_impact, trade_offs, new_runway) ==
    IF RLt(new_runway, R(3))
    THEN [decision |-> "STOP", reason |-> "runway_under_3_months"]
    ELSE IF RLt(new_runway, R(6))
    THEN [decision |-> "WAIT", reason |-> "runway_under_6_months"]
    ELSE IF price < RECOGNITION_THRESHOLD
    THEN [decision |-> "GO", reason |-> "below_recognition_threshold"]
    ELSE IF \E k \in 1..Len(trade_offs) : RLt(trade_offs[k].probability_change, R(-10))
    THEN [decision |-> "WAIT", reason |-> "goal_impact"]
    ELSE IF RLt(R(500), daily_cost)
    THEN [decision |-> "WAIT", reason |-> "daily_cost"]
    ELSE [decision |-> "GO", reason |-> "all_checks_passed"]

\* make_decision with the two runway outcomes exchanged
make_decision_stop_wait_swapped(price, daily_cost, runway_impact, trade_offs, new_runway) ==
    IF price < RECOGNITION_THRESHOLD
    THEN [decision |-> "GO", reason |-> "below_recognition_threshold"]
    ELSE IF RLt(new_runway, R(3))
    THEN [decision |-> "WAIT", reason |-> "runway_under_6_months"]
    ELSE IF RLt(new_runway, R(6))
    THEN [decision |-> "STOP", reason |-> "runway_under_3_months"]
    ELSE IF \E k \in 1..Len(trade_offs) : RLt(trade_offs[k].probability_change, R(-10))
    THEN [decision |-> "WAIT", reason |-> "goal_impact"]
    ELSE IF RLt(R(500), daily_cost)
    THEN [decision |-> "WAIT", reason |-> "daily_cost"]
    ELSE [decision |-> "GO", reason |-> "all_checks_passed"]

\* make_decision with every comparison non-strict
make_decision_non_strict(price, daily_cost, runway_impact, trade_offs, new_runway) ==
    IF price <= RECOGNITION_THRESHOLD
    THEN [decision |-> "GO", reason |-> "below_recognition_threshold"]
    ELSE IF RLe(new_runway, R(3))
    THEN [decision |-> "STOP", reason |-> "runway_under_3_months"]
    ELSE IF RLe(new_runway, R(6))
    THEN [decision |-> "WAIT", reason |-> "runway_under_6_months"]
    ELSE IF \E k \in 1..Len(trade_offs) : RLe(trade_offs[k].probability_change, R(-10))
    THEN [decision |-> "WAIT", reason |-> "goal_impact"]
    ELSE IF RLe(R(500), daily_cost)
    THEN [decision |-> "WAIT", reason |-> "daily_cost"]
    ELSE [decision |-> "GO", reason |-> "all_checks_passed"]

make_decision(price, daily_cost, runway_impact, trade_offs, new_runway) ==
    IF price < RECOGNITION_THRESHOLD
    THEN [decision |-> "GO", reason |-> "below_recognition_threshold"]
    ELSE IF RLt(new_runway, R(3))
    THEN [decision |-> "STOP", reason |-> "runway_under_3_months"]
    ELSE IF RLt(new_runway, R(6))
    THEN [decision |-> "WAIT", reason |-> "runway_under_6_months"]
    ELSE IF \E k \in 1..Len(trade_offs) : RLt(trade_offs[k].probability_change, R(-10))
    THEN [decision |-> "WAIT", reason |-> "goal_impact"]
    ELSE IF RLt(R(500), daily_cost)
    THEN [decision |-> "WAIT", reason |-> "daily_cost"]
    ELSE [decision |-> "GO", reason |-> "all_checks_passed"]

generate_alternatives(price, decision, daily_cost) ==
    LET a1 == IF decision # "GO"
              THEN <<"cheaper_alternative", "wait_for_sale", "save_first">>
              ELSE <<>>
        a2 == IF RLt(R(300), daily_cost) THEN a1 \o <<"rental">> ELSE a1
    IN  IF a2 = <<>> THEN <<"proceed">> ELSE a2

audit_purchase(goals, price, lifespan_years, resale_opt, liquid_opt, expenses_opt) ==
    LET resale_value == IF resale_opt = None
                        THEN RoundHalfEven(RMul(R(price), <<1, 10>>))
                        ELSE resale_opt[1]
        current_liquid_assets == OrDefault(liquid_opt, DefaultLiquidAssets)
        monthly_expenses == OrDefault(expenses_opt, DefaultMonthlyExpenses)
        lifespan_days == Trunc(RMul(lifespan_years, R(365)))
        true_cost == price - resale_value
    IN  IF lifespan_days = 0
        THEN \* Decimal division by zero raises
             [op |-> "audit_purchase", raised |-> TRUE, price |-> price,
              lifespan_years |-> lifespan_years]
        ELSE
        LET daily_cost == Rat(RoundHalfUp(Rat(true_cost * 100, lifespan_days)), 100)
            monthly_cost == RoundHalfEven(RMul(daily_cost, R(30)))
            annual_cost == RoundHalfEven(RMul(daily_cost, R(365)))
            current_runway == IF monthly_expenses > 0
                              THEN Rat(current_liquid_assets, monthly_expenses)
                              ELSE R(999)
            new_liquid == current_liquid_assets - price
            new_runway == IF monthly_expenses > 0
                          THEN Rat(new_liquid, monthly_expenses)
                          ELSE R(999)
            runway_impact == RSub(current_runway, new_runway)
            savings_per_day == RDiv(RMul(R(monthly_expenses), <<1, 5>>), R(30))
            asset_life_impact == IF RLt(R(0), savings_per_day)
                                 THEN Trunc(RDiv(R(price), savings_per_day))
                                 ELSE 0
            trade_offs == calculate_trade_offs(price, goals)
            d == make_decision(price, daily_cost, runway_impact, trade_offs, new_runway)
        IN  [op |-> "audit_purchase", raised |-> FALSE,
             price |-> price, lifespan_years |-> lifespan_years,
             resale_value |-> resale_value,
             daily_cost |-> daily_cost, monthly_cost |-> monthly_cost,
             annual_cost |-> annual_cost, true_cost |-> true_cost,
             new_runway |-> new_runway,
             runway_impact_months |-> runway_impact,
             asset_life_impact_days |-> asset_life_impact,
             trade_offs |-> trade_offs,
             decision |-> d.decision, decision_reason |-> d.reason,
             alternative_suggestions |->
                 generate_alternatives(price, d.decision, daily_cost)]

\* Inputs of the audit form
Prices == {20000, 30000, 100000}
LifespanYears == {<<1, 1000>>, <<1, 2>>, <<5, 1>>}
ResaleValues == {None, Some(0), Some(9000)}
LiquidAssets == {None, Some(100000), Some(180000), Some(400000)}
MonthlyExpenses == {None, Some(0), Some(50000)}

----------------------------------------------------------------------------
(* Strategy service (src/backend/app/services/strategy_service.py) *)

\* calculate_goal_progress counting a goal without a target as fully funded
calculate_goal_progress_zero_target_full(target_amount, current_funded, monthly_contribution, months_remaining, annual_return) ==
    LET monthly_rate == RDiv(RDiv(annual_return, R(100)), R(12))
        Progress(projected, progress) ==
            [progress_pct |-> RMin(progress, R(100)),
             projected_amount |-> projected,
             shortfall |-> RMax(R(0), RSub(target_amount, projected)),
             probability |-> RMin(R(100), progress)]
        Projected(projected) ==
            Progress(projected,
                     IF RLt(R(0), target_amount)
                     THEN RMul(RDiv(projected, target_amount), R(100))
                     ELSE R(100))
    IN  IF months_remaining <= 0 THEN Projected(current_funded)
        ELSE Projected(RAdd(RMul(current_funded,
                                 RPow(RAdd(R(1), monthly_rate), months_remaining)),
                            IF RLt(R(0), monthly_rate)
                            THEN RMul(monthly_contribution,
                                      RDiv(RSub(RPow(RAdd(R(1), monthly_rate),
                                                     months_remaining), R(1)),
                                           monthly_rate))
                            ELSE RMul(monthly_contribution, R(months_remaining))))

\* calculate_goal_progress leaving out the last contribution when the rate is 0
calculate_goal_progress_zero_rate_short(target_amount, current_funded, monthly_contribution, months_remaining, annual_return) ==
    LET monthly_rate == RDiv(RDiv(annual_return, R(100)), R(12))
        Progress(projected, progress) ==
            [progress_pct |-> RMin(progress, R(100)),
             projected_amount |-> projected,
             shortfall |-> RMax(R(0), RSub(target_amount, projected)),
             probability |-> RMin(R(100), progress)]
        Projected(projected) ==
            Progress(projected,
                     IF RLt(R(0), target_amount)
                     THEN RMul(RDiv(projected, target_amount), R(100))
                     ELSE R(0))
    IN  IF months_remaining <= 0 THEN Projected(current_funded)
        ELSE IF RLt(R(0), monthly_rate)
        THEN Projected(RAdd(RMul(current_funded,
                                 RPow(RAdd(R(1), monthly_rate), months_remaining)),
                            RMul(monthly_contribution,
                                 RDiv(RSub(RPow(RAdd(R(1), monthly_rate),
                                                months_remaining), R(1)),
                                      monthly_rate))))
        ELSE Projected(RAdd(RMul(current_funded,
                                 RPow(RAdd(R(1), monthly_rate), months_remaining)),
                            RMul(monthly_contribution, R(months_remaining - 1))))

\* calculate_goal_progress with a due goal still receiving one contribution
calculate_goal_progress_due_contributes(target_amount, current_funded, monthly_contribution, months_remaining, annual_return) ==
    LET Progress(projected, progress) ==
            [progress_pct |-> RMin(progress, R(100)),
             projected_amount |-> projected,
             shortfall |-> RMax(R(0), RSub(target_amount, projected)),
             probability |-> RMin(R(100), progress)]
        Projected(projected) ==
            Progress(projected,
                     IF RLt(R(0), target_amount)
                     THEN RMul(RDiv(projected, target_amount), R(100))
                     ELSE R(0))
    IN  IF months_remaining <= 0
        THEN Projected(RAdd(current_funded, monthly_contribution))
        ELSE Projected(RAdd(current_funded,
                            RMul(monthly_contribution, R(months_remaining))))

\* Amounts, rates and counts are floats in the code; n is an int.  Each local
\* operator stands for the statements that follow the assignment of its
\* parameters
calculate_goal_progress(target_amount, current_funded, monthly_contribution, months_remaining, annual_return) ==
    LET Due(progress) ==
            [progress_pct |-> RMin(progress, R(100)),
             projected_amount |-> current_funded,
             shortfall |-> RMax(R(0), RSub(target_amount, current_funded)),
             probability |-> RMin(R(100), progress)]
        Ahead(projected_total, progress_pct) ==
            [progress_pct |-> RMin(progress_pct, R(100)),
             projected_amount |-> projected_total,
             shortfall |-> RMax(R(0), RSub(target_amount, projected_total)),
             probability |-> RMin(R(100), progress_pct)]
        Projected(projected_total) ==
            Ahead(projected_total,
                  IF RLt(R(0), target_amount)
                  THEN RMul(RDiv(projected_total, target_amount), R(100))
                  ELSE R(0))
        Grown(monthly_rate, growth) ==
            \* fv_current + fv_contributions
            Projected(RAdd(RMul(current_funded, growth),
                           IF RLt(R(0), monthly_rate)
                           THEN RMul(monthly_contribution,
                                     RDiv(RSub(growth, R(1)), monthly_rate))
                           ELSE RMul(monthly_contribution, R(months_remaining))))
        Compounded(monthly_rate) ==
            Grown(monthly_rate, RPow(RAdd(R(1), monthly_rate), months_remaining))
    IN  IF months_remaining <= 0
        THEN Due(IF RLt(R(0), target_amount)
                 THEN RMul(RDiv(current_funded, target_amount), R(100))
                 ELSE R(0))
        ELSE Compounded(RDiv(RDiv(annual_return, R(100)), R(12)))

DefaultAnnualReturn == 5
DefaultMonthlySavings == 100000

\* The simulation_config dict built when the caller passes none
simulation_config_of(config) ==
    [annual_return |-> IF config # None THEN config[1].annual_return
                       ELSE R(DefaultAnnualReturn),
     monthly_savings |-> IF config # None THEN config[1].monthly_savings
                         ELSE R(DefaultMonthlySavings)]

MonthsRemaining(target_date, today) ==
    (target_date[1] - today[1]) * 12 + (target_date[2] - today[2])

Max2(a, b) == IF a < b THEN b ELSE a

\* One entry of get_life_events_with_progress, the savings not split
EventWithProgress_unsplit(event, simulation_config, n_events) ==
    LET Entry(months_remaining, monthly_contrib, progress) ==
            [target_date |-> event.target_date,
             target_amount |-> event.target_amount,
             funded_amount |-> event.funded_amount,
             months_remaining |-> months_remaining,
             monthly_contribution |-> monthly_contrib,
             progress_pct |-> progress.progress_pct,
             projected_amount |-> progress.projected_amount,
             shortfall |-> progress.shortfall,
             probability |-> progress.probability]
        Contributing(months_remaining, monthly_contrib) ==
            Entry(months_remaining, monthly_contrib,
                  calculate_goal_progress(event.target_amount, event.funded_amount,
                                          monthly_contrib, months_remaining,
                                          simulation_config.annual_return))
    IN  Contributing(MonthsRemaining(event.target_date, Today),
                     IF event.monthly_contribution # R(0)
                     THEN event.monthly_contribution
                     ELSE simulation_config.monthly_savings)

\* One entry of get_life_events_with_progress
EventWithProgress(event, simulation_config, n_events) ==
    LET Entry(months_remaining, monthly_contrib, progress) ==
            [target_date |-> event.target_date,
             target_amount |-> event.target_amount,
             funded_amount |-> event.funded_amount,
             months_remaining |-> months_remaining,
             monthly_contribution |-> monthly_contrib,
             progress_pct |-> progress.progress_pct,
             projected_amount |-> progress.projected_amount,
             shortfall |-> progress.shortfall,
             probability |-> progress.probability]
        Contributing(months_remaining, monthly_contrib) ==
            Entry(months_remaining, monthly_contrib,
                  calculate_goal_progress(event.target_amount, event.funded_amount,
                                          monthly_contrib, months_remaining,
                                          simulation_config.annual_return))
    IN  Contributing(MonthsRemaining(event.target_date, Today),
                     IF event.monthly_contribution # R(0)
                     THEN event.monthly_contribution
                     ELSE RDiv(simulation_config.monthly_savings, R(Max2(1, n_events))))

get_life_events_with_progress(life_events, config) ==
    LET simulation_config == simulation_config_of(config)
    IN  [k \in 1..Len(life_events) |->
            EventWithProgress(life_events[k], simulation_config, Len(life_events))]

\* sum(f(e) for e in events): a left fold from 0 in list order
RECURSIVE SumTo(_, _)
SumTo(terms, k) == IF k = 0 THEN R(0) ELSE RAdd(SumTo(terms, k - 1), terms[k])

Sum(terms) == SumTo(terms, Len(terms))

\* The same fold as the floats carry it out: every partial sum is rounded
RECURSIVE FloatSumTo(_, _)
FloatSumTo(terms, k) ==
    IF k = 0 THEN R(0) ELSE FAdd(FloatSumTo(terms, k - 1), terms[k])

FloatSum(terms) == FloatSumTo(terms, Len(terms))

\* round(x, 1) of a float x whose expression has the value exact and whose
\* floating-point evaluation came out as computed: to one decimal, ties to
\* even; on a boundary a computed value off the exact one is no tie any more
Round1(exact, computed) ==
    LET Tenths(tenths, below) ==
            IF RSub(tenths, R(below)) = Rat(1, 2) /\ computed # exact
            THEN IF RLt(computed, exact) THEN Rat(below, 10) ELSE Rat(below + 1, 10)
            ELSE Rat(RoundHalfEven(tenths), 10)
        Scaled(tenths) == Tenths(tenths, RFloor(tenths))
    IN  Scaled(RMul(exact, R(10)))

\* The probabilities, target amounts and projected amounts of the entries
Probabilities(events_with_progress) ==
    [k \in 1..Len(events_with_progress) |-> events_with_progress[k].probability]

TargetAmounts(events_with_progress) ==
    [k \in 1..Len(events_with_progress) |-> events_with_progress[k].target_amount]

ProjectedAmounts(events_with_progress) ==
    [k \in 1..Len(events_with_progress) |-> events_with_progress[k].projected_amount]

\* sum(g["probability"] * (g["target_amount"] / total_target) for g in ...)
WeightedProb(events_with_progress, total_target) ==
    Sum([k \in 1..Len(events_with_progress) |->
            RMul(events_with_progress[k].probability,
                 RDiv(events_with_progress[k].target_amount, total_target))])

\* The same sum as the floats carry it out
FloatWeightedProb(events_with_progress, float_total_target) ==
    FloatSum([k \in 1..Len(events_with_progress) |->
                FMul(Fl(events_with_progress[k].probability),
                     FDiv(Fl(events_with_progress[k].target_amount),
                          float_total_target))])

\* calculate_overall_goal_probability with the plain mean of the probabilities
calculate_overall_goal_probability_unweighted(life_events, config) ==
    LET Rounded(events_with_progress, mean) ==
            [op |-> "calculate_overall_goal_probability",
             overall_probability |-> Round1(mean, mean),
             total_goals |-> Len(events_with_progress),
             total_target |-> Sum(TargetAmounts(events_with_progress)),
             total_projected |-> Sum(ProjectedAmounts(events_with_progress)),
             goals |-> events_with_progress]
        Overall(events_with_progress) ==
            Rounded(events_with_progress,
                    IF Len(events_with_progress) = 0 THEN R(100)
                    ELSE RDiv(Sum(Probabilities(events_with_progress)),
                              R(Len(events_with_progress))))
    IN  Overall(get_life_events_with_progress(life_events, config))

\* calculate_overall_goal_probability reporting 0 when there is nothing to fund
calculate_overall_goal_probability_empty_zero(life_events, config) ==
    LET Rounded(events_with_progress, total_target, weighted_prob) ==
            [op |-> "calculate_overall_goal_probability",
             overall_probability |-> Round1(weighted_prob, weighted_prob),
             total_goals |-> Len(events_with_progress),
             total_target |-> total_target,
             total_projected |-> Sum(ProjectedAmounts(events_with_progress)),
             goals |-> events_with_progress]
        Weighted(events_with_progress, total_target) ==
            Rounded(events_with_progress, total_target,
                    IF RLt(R(0), total_target)
                    THEN WeightedProb(events_with_progress, total_target)
                    ELSE R(0))
        Overall(events_with_progress) ==
            Weighted(events_with_progress, Sum(TargetAmounts(events_with_progress)))
    IN  Overall(get_life_events_with_progress(life_events, config))

\* Each local operator stands for the statements that follow the assignment
\* of its parameters
calculate_overall_goal_probability(life_events, config) ==
    LET Rounded(events_with_progress, total_target, weighted_prob, float_weighted_prob) ==
            [op |-> "calculate_overall_goal_probability",
             overall_probability |-> Round1(weighted_prob, float_weighted_prob),
             total_goals |-> Len(events_with_progress),
             total_target |-> total_target,
             total_projected |-> Sum(ProjectedAmounts(events_with_progress)),
             goals |-> events_with_progress]
        Weighted(events_with_progress, total_target) ==
            Rounded(events_with_progress, total_target,
                    IF RLt(R(0), total_target)
                    THEN WeightedProb(events_with_progress, total_target)
                    ELSE R(0),
                    IF RLt(R(0), total_target)
                    THEN FloatWeightedProb(events_with_progress,
                             FloatSum([k \in 1..Len(events_with_progress) |->
                                         Fl(events_with_progress[k].target_amount)]))
                    ELSE R(0))
        Overall(events_with_progress) ==
            IF Len(events_with_progress) = 0
            THEN [op |-> "calculate_overall_goal_probability",
                  overall_probability |-> R(100), total_goals |-> 0,
                  total_target |-> R(0), total_projected |-> R(0), goals |-> <<>>]
            ELSE Weighted(events_with_progress, Sum(TargetAmounts(events_with_progress)))
    IN  Overall(get_life_events_with_progress(life_events, config))

\* Request bodies
EventDates == {<<2025, 5, 31>>, <<2025, 8, 1>>}
EventTargets == {R(0), R(640), R(2560)}
\* <<funded_amount, monthly_contribution>>: nothing saved and a contribution
\* set, or savings and the contribution left unset
EventFunding == {<<R(0), R(100)>>, <<R(1280), R(0)>>}
LifeEvents ==
    {[target_date |-> d, target_amount |-> t,
      funded_amount |-> f[1], monthly_contribution |-> f[2]] :
        d \in EventDates, t \in EventTargets, f \in EventFunding}
SimulationConfigs ==
    [annual_return : {R(0), R(600)}, monthly_savings : {R(600)}]

\* Arguments of a direct call of calculate_goal_progress
ProgressTargets == {R(0), R(640), R(2560)}
ProgressFunded == {R(-576), R(0), R(576), R(1280)}
ProgressContributions == {R(0), R(100), R(200)}
ProgressMonths == {-1, 0, 1, 2, 3}
ProgressReturns == {R(-2400), R(-600), R(0), R(5), R(600)}

----------------------------------------------------------------------------
(* np.random, the process-wide generator *)

\* The generator is deterministic: a draw is a function of the state, the
\* state after it a function of the state before.  The state is the position
\* in one cycle of standard normal variates, quantised to -2 .. 2.
StdNormalTable == <<0, -2, 1, -2, -1, 1, 1, 0, 2, 2, 0, -1, 0, 0, -1, 0>>
RngModulus == Len(StdNormalTable)
RngStates == 0..(RngModulus - 1)

\* np.random.seed(n)
Seed(n) == n % RngModulus

\* The state after one draw
NextRng(s) == (s + 1) % RngModulus

\* The state after k draws
RngAfter(s, k) == (s + k) % RngModulus

\* np.random.normal(loc, scale) in state s
Normal(loc, scale, s) == RAdd(loc, RMul(scale, R(StdNormalTable[s + 1])))

----------------------------------------------------------------------------
(* Simulation engine (src/src/strategy/simulator.py) *)

\* SimulationParams.  expected_return, inflation_rate and
\* contribution_growth_rate are fractions per year.  np.sqrt(12) is irrational:
\* volatility holds the annual volatility divided by np.sqrt(12), which is the
\* monthly volatility the loops use.
SimulationParams(expected_return, volatility, inflation_rate, num_simulations, time_horizon_years, monthly_contribution, contribution_growth_rate) ==
    [expected_return |-> expected_return, volatility |-> volatility,
     inflation_rate |-> inflation_rate, num_simulations |-> num_simulations,
     time_horizon_years |-> time_horizon_years,
     monthly_contribution |-> monthly_contribution,
     contribution_growth_rate |-> contribution_growth_rate]

\* np.median / np.percentile of an empty or undefined sample
NaN == <<0, 0>>

Min2(a, b) == IF a < b THEN a ELSE b

Sorted(values) == SortSeq(values, LAMBDA a, b : RLt(a, b))

\* np.median
Median(values) ==
    LET n == Len(values)
        a == Sorted(values)
    IN  IF n = 0 THEN NaN
        ELSE IF n % 2 = 1 THEN a[(n + 1) \div 2]
        ELSE RDiv(RAdd(a[n \div 2], a[n \div 2 + 1]), R(2))

\* np.percentile counting q from the largest value down
Percentile_from_largest(values, q) ==
    LET n == Len(values)
        a == Sorted(values)
        position == RMul(Rat(100 - q, 100), R(n - 1))
        below == RFloor(position)
        fraction == RSub(position, R(below))
    IN  IF n = 0 THEN NaN
        ELSE IF below + 1 >= n THEN a[n]
        ELSE RAdd(a[below + 1],
                  RMul(fraction, RSub(a[below + 2], a[below + 1])))

\* np.percentile(values, q), linear interpolation between the order statistics
Percentile(values, q) ==
    LET n == Len(values)
        a == Sorted(values)
        position == RMul(Rat(q, 100), R(n - 1))
        below == RFloor(position)
        fraction == RSub(position, R(below))
    IN  IF n = 0 THEN NaN
        ELSE IF below + 1 >= n THEN a[n]
        ELSE RAdd(a[below + 1],
                  RMul(fraction, RSub(a[below + 2], a[below + 1])))

\* One turn of the month loop as a map of <<value, contrib>>, written
\* <<a, b, d>>: value becomes a * value + b * contrib (value *= 1 + r, then
\* value += contrib) and contrib becomes d * contrib.  s is the generator state
\* the turn draws in.
MonthStep(month, params, s) ==
    LET random_return == Normal(RDiv(params.expected_return, R(12)),
                                params.volatility, s)
    IN  <<RAdd(R(1), random_return),
          R(1),
          IF month > 0 /\ month % 12 = 0
          THEN RAdd(R(1), params.contribution_growth_rate)
          ELSE R(1)>>

\* The turns first and then the turns second, as one map
Then(first, second) ==
    <<RMul(second[1], first[1]),
      RAdd(RMul(second[1], first[2]), RMul(second[2], first[3])),
      RMul(second[3], first[3])>>

\* The turns month = lo .. hi - 1 of a path begun in generator state s, one
\* draw a turn.  Running the turns one after the other is associative; they
\* are put together in halves.
RECURSIVE PathMonths(_, _, _, _)
PathMonths(lo, hi, params, s) ==
    IF hi <= lo THEN <<R(1), R(0), R(1)>>
    ELSE IF hi = lo + 1 THEN MonthStep(lo, params, RngAfter(s, lo))
    ELSE LET mid == (lo + hi) \div 2
         IN  Then(PathMonths(lo, mid, params, s), PathMonths(mid, hi, params, s))

\* The terminal value of one sample path: value = initial and
\* contrib = monthly_contribution, then the turns month = 0 .. n_months - 1
SamplePath(n_months, initial, params, s) ==
    LET Terminal(months) ==
            RAdd(RMul(months[1], initial), RMul(months[2], params.monthly_contribution))
    IN  Terminal(PathMonths(0, n_months, params, s))

\* n_sims sample paths one after the other: <<terminal values, generator state>>
RECURSIVE SamplePaths(_, _, _, _, _)
SamplePaths(n_sims, n_months, initial, params, s) ==
    LET Another(earlier) ==
            <<Append(earlier[1], SamplePath(n_months, initial, params, earlier[2])),
              RngAfter(earlier[2], n_months)>>
    IN  IF n_sims = 0 THEN <<<<>>, s>>
        ELSE Another(SamplePaths(n_sims - 1, n_months, initial, params, s))

MonteCarloSeed == 42

\* _monte_carlo as if it went on from the generator state s it is called in
monte_carlo_unseeded(initial, params, s) ==
    LET Deflated(paths, inflation_factor) ==
            <<[k \in 1..Len(paths[1]) |-> RDiv(paths[1][k], inflation_factor)],
              paths[2]>>
    IN  Deflated(SamplePaths(params.num_simulations, params.time_horizon_years * 12,
                             initial, params, s),
                 RPow(RAdd(R(1), params.inflation_rate), params.time_horizon_years))

\* _monte_carlo called in generator state s: <<final_values, generator state>>
monte_carlo(initial, params, s) ==
    LET Deflated(paths, inflation_factor) ==
            <<[k \in 1..Len(paths[1]) |-> RDiv(paths[1][k], inflation_factor)],
              paths[2]>>
    IN  Deflated(SamplePaths(params.num_simulations, params.time_horizon_years * 12,
                             initial, params, Seed(MonteCarloSeed)),
                 RPow(RAdd(R(1), params.inflation_rate), params.time_horizon_years))

\* The point of the trajectory for year, after the points earlier, from the
\* paths simulated for it
TrajectoryPoint(year, earlier, paths) ==
    <<Append(earlier[1], [year |-> year, date |-> Today[1] + year,
                          value |-> Median(paths[1])]),
      paths[2]>>

\* One turn of the loop of _calculate_trajectory, year >= 1
TrajectoryYear(year, initial, params, earlier) ==
    TrajectoryPoint(year, earlier,
                    SamplePaths(Min2(100, params.num_simulations), year * 12,
                                initial, params, earlier[2]))

\* _calculate_trajectory, years 0 .. year: <<trajectory, generator state>>
RECURSIVE TrajectoryTo(_, _, _, _)
TrajectoryTo(year, initial, params, s) ==
    IF year = 0
    THEN <<<<[year |-> 0, date |-> Today[1], value |-> initial]>>, s>>
    ELSE TrajectoryYear(year, initial, params,
                        TrajectoryTo(year - 1, initial, params, s))

calculate_trajectory(initial, params, s) ==
    TrajectoryTo(params.time_horizon_years, initial, params, s)

\* _simulate_for_years: <<final_values, generator state>>
simulate_for_years(initial, params, years, s) ==
    SamplePaths(params.num_simulations, years * 12, initial, params, s)

\* SimulationParams(): the defaults of the dataclass.  volatility is
\* 0.15 / np.sqrt(12) to FloatBits bits; DefaultSimulations paths stand for
\* num_simulations = 1000
DefaultSimulations == 2
DefaultParams ==
    SimulationParams(Fl(Rat(5, 100)), Rat(1419, 32768), Fl(Rat(2, 100)),
                     DefaultSimulations, 30, R(50000), Fl(Rat(2, 100)))

\* The month loop of _simulate_for_years from month on, every float operation
\* rounded to FloatBits bits: the end value of the path begun in state s.
\* A value that is not a number stays one to the end of the loop.
RECURSIVE FloatPathFrom(_, _, _, _, _, _)
FloatPathFrom(month, n_months, value, contrib, params, s) ==
    IF month >= n_months \/ value[2] = 0 \/ contrib[2] = 0 THEN value
    ELSE FloatPathFrom(
             month + 1, n_months,
             FAdd(FMul(value,
                       FAdd(R(1), Fl(Normal(FDiv(params.expected_return, R(12)),
                                            params.volatility, RngAfter(s, month))))),
                  contrib),
             IF month > 0 /\ month % 12 = 0
             THEN FMul(contrib, FAdd(R(1), params.contribution_growth_rate))
             ELSE contrib,
             params, s)

\* _simulate_for_years in floats: the final values of n_sims paths, path k
\* begun where path k - 1 left the generator
FloatPaths(n_sims, n_months, initial, params, s) ==
    [k \in 1..n_sims |->
        FloatPathFrom(0, n_months, Fl(initial), Fl(params.monthly_contribution),
                      params, RngAfter(s, (k - 1) * n_months))]

\* sum(1 for v in values if v >= float(goal_amount)) / len(values) * 100
SuccessShare(values, goal_amount) ==
    RMul(Rat(Cardinality({k \in 1..Len(values) : RLe(Fl(goal_amount), values[k])}),
             Len(values)),
         R(100))

ReturnRates == <<Rat(2, 100), Rat(4, 100), Rat(6, 100), Rat(8, 100), Rat(10, 100)>>
Contributions == <<30000, 50000, 70000, 100000, 150000>>

\* One scenario of sensitivity_analysis, the j-th _simulate_for_years of the call
Scenario(j, initial_value, goal_amount, years, params, s) ==
    SuccessShare(FloatPaths(params.num_simulations, years * 12, initial_value, params,
                            RngAfter(s, (j - 1) * params.num_simulations * years * 12)),
                 goal_amount)

\* sensitivity_analysis called in generator state s
sensitivity_analysis(initial_value, goal_amount, years, s) ==
    [return_sensitivity |->
        [j \in 1..Len(ReturnRates) |->
            [return_rate |-> RMul(ReturnRates[j], R(100)),
             probability |->
                 Scenario(j, initial_value, goal_amount, years,
                          [DefaultParams EXCEPT !.expected_return = Fl(ReturnRates[j])],
                          s)]],
     contribution_sensitivity |->
        [j \in 1..Len(Contributions) |->
            [contribution |-> Contributions[j],
             probability |->
                 Scenario(Len(ReturnRates) + j, initial_value, goal_amount, years,
                          [DefaultParams EXCEPT !.monthly_contribution = R(Contributions[j])],
                          s)]],
     rng |-> RngAfter(s, (Len(ReturnRates) + Len(Contributions))
                         * DefaultSimulations * years * 12)]

StrDigits == 6      \* significant digits of str(float) (up to 17 for a double)

RECURSIVE Pow10(_)
Pow10(k) == IF k = 0 THEN 1 ELSE 10 * Pow10(k - 1)

\* The number of decimal digits of the integer i >= 0 (0 for i = 0)
RECURSIVE Digits(_)
Digits(i) == IF i = 0 THEN 0 ELSE 1 + Digits(i \div 10)

\* The number of zeros after the decimal point of x, 0 < x < 1
RECURSIVE LeadingZeros(_)
LeadingZeros(x) ==
    IF RLe(Rat(1, 10), x) THEN 0 ELSE 1 + LeadingZeros(RMul(x, R(10)))

RAbs(x) == IF x[1] < 0 THEN RNeg(x) ELSE x

\* x rounded to places decimal places (tens, hundreds, ... for places < 0)
RoundToPlaces(x, places) ==
    IF places >= 0
    THEN Rat(RoundHalfEven(RMul(x, R(Pow10(places)))), Pow10(places))
    ELSE R(RoundHalfEven(RDiv(x, R(Pow10(-places)))) * Pow10(-places))

\* The decimal places that leave StrDigits significant digits of a > 0, whose
\* integer part has whole digits
SignificantPlaces(a, whole) ==
    IF whole > 0 THEN StrDigits - whole ELSE StrDigits + LeadingZeros(a)

\* Decimal(str(x)): the decimal string of the float, to StrDigits significant
\* digits, read back exactly
DecimalOfStr(x) ==
    IF x[1] = 0 THEN R(0)
    ELSE RoundToPlaces(x, SignificantPlaces(RAbs(x), Digits(RFloor(RAbs(x)))))

\* pmt = required_from_contributions / divisor; return max(0, pmt)
RequiredPmt(required_from_contributions, divisor) ==
    IF divisor = R(0)
    THEN [raised |-> TRUE, value |-> NaN]
    ELSE [raised |-> FALSE,
          value |-> RMax(R(0), RDiv(required_from_contributions, divisor))]

\* _calculate_required_contribution from required_from_contributions on
SolvePmt(monthly_rate, n_months, required_from_contributions) ==
    IF RLe(required_from_contributions, R(0))
    THEN [raised |-> FALSE, value |-> R(0)]
    ELSE IF RLt(R(0), monthly_rate)
    THEN RequiredPmt(required_from_contributions,
                     \* factor
                     RDiv(RSub(RPow(RAdd(R(1), monthly_rate), n_months), R(1)),
                          monthly_rate))
    ELSE RequiredPmt(required_from_contributions, R(n_months))

\* _calculate_required_contribution from adjusted_target on; safety_margin = 1.3
RequiredFromContributions(initial, target, monthly_rate, n_months) ==
    SolvePmt(monthly_rate, n_months,
             \* adjusted_target - fv_initial
             RSub(RMul(target, Rat(13, 10)),
                  RMul(initial, RPow(RAdd(R(1), monthly_rate), n_months))))

\* _calculate_required_contribution; raised: ZeroDivisionError
calculate_required_contribution(initial, target, years, params) ==
    RequiredFromContributions(initial, target,
                              RDiv(params.expected_return, R(12)),
                              Trunc(RMul(years, R(12))))

\* years_to_goal = max(0, (goal.target_date - today).days / 365)
YearsToGoal(goal) == RMax(R(0), Rat(DaysBetween(goal.target_date, Today), 365))

\* The GoalResult of a goal whose date has passed
PassedGoalResult(goal_id, goal) ==
    [goal_id |-> goal_id, target_amount |-> goal.target_amount,
     target_date |-> goal.target_date, current_allocation |-> R(0),
     success_probability |-> R(0), median_outcome |-> R(0),
     percentile_10 |-> R(0), percentile_90 |-> R(0),
     monthly_contribution_needed |-> R(0),
     gap_analysis |-> [kind |-> "passed", amount |-> 0],
     goal_values |-> <<>>]

\* gap_analysis, its text reduced to its kind and amount
GapAnalysis(gap) ==
    IF RLt(R(0), gap)
    THEN [kind |-> "short", amount |-> RoundHalfEven(gap)]
    ELSE [kind |-> "on_track", amount |-> RoundHalfEven(RNeg(gap))]

\* The GoalResult appended for a goal ahead.  goal_values is the loop's local
\* list of terminal values.
GoalResult(goal_id, goal, goal_values, probability, median, p10, p90, needed) ==
    [goal_id |-> goal_id, target_amount |-> goal.target_amount,
     target_date |-> goal.target_date, current_allocation |-> R(0),
     success_probability |-> probability,
     median_outcome |-> median,
     percentile_10 |-> p10, percentile_90 |-> p90,
     monthly_contribution_needed |-> DecimalOfStr(needed.value),
     gap_analysis |-> GapAnalysis(RSub(R(goal.target_amount), median)),
     goal_values |-> goal_values]

\* sum(1 for v in goal_values if v >= target)
Successes(goal_values, target) ==
    Cardinality({k \in 1..Len(goal_values) : RLe(target, goal_values[k])})

\* The turn for a goal ahead once needed is known
GoalNeeded(goal_id, goal, goal_values, rng_after, needed) ==
    IF Len(goal_values) = 0 \/ needed.raised
    THEN [raised |-> TRUE, rng |-> rng_after]
    ELSE [raised |-> FALSE, rng |-> rng_after,
          goal_result |->
             GoalResult(goal_id, goal, goal_values,
                        RMul(Rat(Successes(goal_values, R(goal.target_amount)),
                                 Len(goal_values)), R(100)),
                        DecimalOfStr(Median(goal_values)),
                        DecimalOfStr(Percentile(goal_values, 10)),
                        DecimalOfStr(Percentile(goal_values, 90)),
                        needed)]

\* The turn for a goal ahead once its paths sims are simulated
GoalSimulated(goal_id, goal, initial_value, params, years_to_goal, sims) ==
    GoalNeeded(goal_id, goal, sims[1], sims[2],
               calculate_required_contribution(initial_value, R(goal.target_amount),
                                               years_to_goal, params))

\* The turn with a draw spent on a goal whose date has passed
GoalYears_passed_draws(goal_id, goal, initial_value, params, s, years_to_goal) ==
    IF RLe(years_to_goal, R(0))
    THEN [raised |-> FALSE, rng |-> RngAfter(s, 1),
          goal_result |-> PassedGoalResult(goal_id, goal)]
    ELSE GoalSimulated(goal_id, goal, initial_value, params, years_to_goal,
                       simulate_for_years(initial_value, params,
                                          Trunc(years_to_goal), s))

\* The turn once years_to_goal is known
GoalYears(goal_id, goal, initial_value, params, s, years_to_goal) ==
    IF RLe(years_to_goal, R(0))
    THEN [raised |-> FALSE, rng |-> s, goal_result |-> PassedGoalResult(goal_id, goal)]
    ELSE GoalSimulated(goal_id, goal, initial_value, params, years_to_goal,
                       simulate_for_years(initial_value, params,
                                          Trunc(years_to_goal), s))

\* One turn of the loop of _evaluate_goals, in generator state s.  No
\* GoalAllocation rows are modelled: _get_goal_allocation returns Decimal('0').
\* raised: ZeroDivisionError
EvaluateGoal(goal_id, goal, initial_value, params, s) ==
    GoalYears(goal_id, goal, initial_value, params, s, YearsToGoal(goal))

\* The results after the turn that follows the results earlier
GoalTurn(earlier, turn) ==
    IF turn.raised
    THEN [raised |-> TRUE, rng |-> turn.rng, results |-> earlier.results]
    ELSE [raised |-> FALSE, rng |-> turn.rng,
          results |-> Append(earlier.results, turn.goal_result)]

\* Goal k evaluated after the goals earlier, unless one of them raised
GoalAfter(k, goals, initial_value, params, earlier) ==
    IF earlier.raised THEN earlier
    ELSE GoalTurn(earlier,
                  EvaluateGoal(k, goals[k], initial_value, params, earlier.rng))

\* _evaluate_goals over goals 1 .. k: the results so far, or that a turn raised
RECURSIVE EvaluateGoalsTo(_, _, _, _, _)
EvaluateGoalsTo(k, goals, initial_value, params, s) ==
    IF k = 0 THEN [raised |-> FALSE, rng |-> s, results |-> <<>>]
    ELSE GoalAfter(k, goals, initial_value, params,
                   EvaluateGoalsTo(k - 1, goals, initial_value, params, s))

evaluate_goals(goals, initial_value, params, s) ==
    EvaluateGoalsTo(Len(goals), goals, initial_value, params, s)

\* The recommendation for each of the goals raise_it
IncreaseContribution(raise_it, params) ==
    [k \in 1..Len(raise_it) |->
        [kind |-> "increase_contribution", goal_id |-> raise_it[k].goal_id,
         amount |-> RoundHalfEven(RSub(raise_it[k].monthly_contribution_needed,
                                       params.monthly_contribution))]]

\* The recommendations, or the one text given without any
RecommendationsOr(recommendations, on_track) ==
    IF Len(recommendations) > 0 THEN recommendations
    ELSE IF Len(on_track) > 0
    THEN <<[kind |-> "keep_plan", goal_id |-> 0, amount |-> 0]>>
    ELSE <<[kind |-> "review_targets", goal_id |-> 0, amount |-> 0]>>

\* _generate_recommendations; the texts are reduced to their kind, goal and amount
generate_recommendations(goal_results, params) ==
    RecommendationsOr(
        IncreaseContribution(
            SelectSeq(SelectSeq(goal_results,      \* at_risk
                                LAMBDA g : RLt(g.success_probability, R(70))),
                      LAMBDA g : RLt(params.monthly_contribution,
                                     g.monthly_contribution_needed)),
            params),
        SelectSeq(goal_results,                    \* on_track
                  LAMBDA g : RLe(R(85), g.success_probability)))

\* sum(g.success_probability for g in goal_results) / len(goal_results),
\* 100 without goals
OverallSuccess(goal_results) ==
    IF Len(goal_results) > 0
    THEN RDiv(Sum([k \in 1..Len(goal_results) |->
                     goal_results[k].success_probability]),
              R(Len(goal_results)))
    ELSE R(100)

\* The SimulationResult built from the parts run_simulation computed
SimulationResult(initial_value, params, projected, trajectory, goal_results, rng_after) ==
    [raised |-> FALSE, rng |-> rng_after,
     simulation_date |-> Today,
     params |-> params,
     initial_investment |-> initial_value,
     projected_values |-> projected[1],
     goal_results |-> goal_results,
     overall_success_rate |-> OverallSuccess(goal_results),
     roadmap_trajectory |-> trajectory[1],
     recommendations |-> generate_recommendations(goal_results, params)]

\* run_simulation once the goals are evaluated
SimulationEvaluated(initial_value, params, projected, trajectory, evaluated) ==
    IF evaluated.raised
    THEN [raised |-> TRUE, rng |-> evaluated.rng]
    ELSE SimulationResult(initial_value, params, projected, trajectory,
                          evaluated.results, evaluated.rng)

\* run_simulation once the trajectory is calculated
SimulationRoadmap(goals, initial_value, params, projected, trajectory) ==
    SimulationEvaluated(initial_value, params, projected, trajectory,
                        evaluate_goals(goals, initial_value, params, trajectory[2]))

\* run_simulation once the final values are projected
SimulationProjected(goals, initial_value, params, projected) ==
    SimulationRoadmap(goals, initial_value, params, projected,
                      calculate_trajectory(initial_value, params, projected[2]))

\* run_simulation with explicit params, called in generator state s.
\* raised: the ZeroDivisionError of _evaluate_goals, which it does not catch
run_simulation(goals, initial_value, params, s) ==
    SimulationProjected(goals, initial_value, params,
                        monte_carlo(initial_value, params, s))

\* Arguments of run_simulation
InitialValues == {R(0), R(2)}
MaxSims == 2
SimContributions == {R(1), R(2)}
SimulationParamSets ==
    {SimulationParams(R(0), v, R(1), n, h, c, R(1)) :
        v \in {R(0), R(1)}, n \in 0..MaxSims, h \in {1, 2}, c \in SimContributions}

----------------------------------------------------------------------------
(* Operations *)

\* No operation in progress: the previous return value has been taken
Idle == [op |-> "none"]

\* The operation ended in an exception (an HTTPException in a router)
Raised(r) == "raised" \in DOMAIN r /\ r.raised

Init ==
    /\ lifeGoals = <<>>
    /\ lifeEvents = <<>>
    /\ simConfig = None
    /\ rng = 0
    /\ lastOp = "none"
    /\ accounts = <<>>
    /\ transactions = <<>>
    /\ journalEntries = <<>>
    /\ lastRecorded = <<>>
    /\ positions = <<>>
    /\ assetTransactions = <<>>
    /\ result = Idle

\* goals page, "Create Goal"
CreateGoal(target, dt) ==
    /\ result = Idle
    /\ Len(lifeGoals) < MaxGoals
    /\ lifeGoals' = Append(lifeGoals, LifeGoal(target, dt))
    /\ result' = [op |-> "create_goal"]
    /\ UNCHANGED <<lifeEvents, simConfig, rng, lastOp, ledger, assetBook>>

\* goals page, "Delete"
DeleteGoal(i) ==
    /\ result = Idle
    /\ i \in 1..Len(lifeGoals)
    /\ lifeGoals' = RemoveAt(lifeGoals, i)
    /\ result' = [op |-> "delete_goal"]
    /\ UNCHANGED <<lifeEvents, simConfig, rng, lastOp, ledger, assetBook>>

AuditPurchase(price, lifespan_years, resale_opt, liquid_opt, expenses_opt) ==
    /\ result = Idle
    /\ result' = audit_purchase(lifeGoals, price, lifespan_years,
                                resale_opt, liquid_opt, expenses_opt)
    /\ UNCHANGED <<lifeGoals, lifeEvents, simConfig, rng, lastOp, ledger, assetBook>>

\* The caller takes the return value (the page is rendered, the response sent)
Return ==
    /\ result # Idle
    /\ result' = Idle
    /\ lastOp' = IF Raised(result) THEN lastOp ELSE result.op
    /\ UNCHANGED <<lifeGoals, lifeEvents, simConfig, rng, ledger, assetBook>>

NextAudit ==
    \/ \E t \in GoalTargets, dt \in GoalDates : CreateGoal(t, dt)
    \/ \E i \in 1..MaxGoals : DeleteGoal(i)
    \/ \E p \in Prices, ly \in LifespanYears, rv \in ResaleValues,
          la \in LiquidAssets, me \in MonthlyExpenses :
          AuditPurchase(p, ly, rv, la, me)
    \/ Return

SpecAudit == Init /\ [][NextAudit]_vars

\* POST /life-events/
CreateLifeEvent(life_event) ==
    /\ result = Idle
    /\ Len(lifeEvents) < MaxEvents
    /\ lifeEvents' = Append(lifeEvents, life_event)
    /\ result' = [op |-> "create_life_event", event |-> life_event]
    /\ UNCHANGED <<lifeGoals, simConfig, rng, lastOp, ledger, assetBook>>

\* PUT /life-events/{event_id}
UpdateLifeEvent(i, life_event) ==
    /\ result = Idle
    /\ IF i \in 1..Len(lifeEvents)
       THEN /\ lifeEvents' = [lifeEvents EXCEPT ![i] = life_event]
            /\ result' = [op |-> "update_life_event", raised |-> FALSE]
       ELSE /\ lifeEvents' = lifeEvents
            /\ result' = [op |-> "update_life_event", raised |-> TRUE]
    /\ UNCHANGED <<lifeGoals, simConfig, rng, lastOp, ledger, assetBook>>

\* DELETE /life-events/{event_id}
DeleteLifeEvent(i) ==
    /\ result = Idle
    /\ IF i \in 1..Len(lifeEvents)
       THEN /\ lifeEvents' = RemoveAt(lifeEvents, i)
            /\ result' = [op |-> "delete_life_event", raised |-> FALSE]
       ELSE /\ lifeEvents' = lifeEvents
            /\ result' = [op |-> "delete_life_event", raised |-> TRUE]
    /\ UNCHANGED <<lifeGoals, simConfig, rng, lastOp, ledger, assetBook>>

\* POST /simulation/config
SaveSimulationConfig(config) ==
    /\ result = Idle
    /\ simConfig' = Some(config)
    /\ result' = [op |-> "create_or_update_simulation_config", config |-> config]
    /\ UNCHANGED <<lifeGoals, lifeEvents, rng, lastOp, ledger, assetBook>>

\* GET /life-events/with-progress storing each projection as the funded amount
GetLifeEventsProgress_writes_funded ==
    /\ result = Idle
    /\ result' = [op |-> "get_life_events_with_progress",
                  events |-> get_life_events_with_progress(lifeEvents, simConfig)]
    /\ lifeEvents' = [k \in 1..Len(lifeEvents) |->
                         [lifeEvents[k] EXCEPT !.funded_amount =
                             result'.events[k].projected_amount]]
    /\ UNCHANGED <<lifeGoals, simConfig, rng, lastOp, ledger, assetBook>>

\* GET /life-events/with-progress
GetLifeEventsProgress ==
    /\ result = Idle
    /\ result' = [op |-> "get_life_events_with_progress",
                  events |-> get_life_events_with_progress(lifeEvents, simConfig)]
    /\ UNCHANGED <<lifeGoals, lifeEvents, simConfig, rng, lastOp, ledger, assetBook>>

\* GET /life-events/goal-probability
GetGoalProbability ==
    /\ result = Idle
    /\ result' = calculate_overall_goal_probability(lifeEvents, simConfig)
    /\ UNCHANGED <<lifeGoals, lifeEvents, simConfig, rng, lastOp, ledger, assetBook>>

\* A direct call of calculate_goal_progress
CalculateGoalProgress(target, funded, contribution, months, annual_return) ==
    /\ result = Idle
    /\ result' = [op |-> "calculate_goal_progress",
                  target_amount |-> target, current_funded |-> funded,
                  monthly_contribution |-> contribution,
                  months_remaining |-> months, annual_return |-> annual_return,
                  out |-> calculate_goal_progress(target, funded, contribution,
                                                  months, annual_return)]
    /\ UNCHANGED <<lifeGoals, lifeEvents, simConfig, rng, lastOp, ledger, assetBook>>

\* dashboard: simulator.run_simulation(initial_value, params)
RunSimulation(initial_value, params) ==
    LET Returned(out) ==
            /\ result' = [op |-> "run_simulation", rng_before |-> rng,
                          initial_value |-> initial_value, params |-> params,
                          raised |-> out.raised, out |-> out]
            /\ rng' = out.rng
    IN  /\ result = Idle
        /\ Returned(run_simulation(lifeGoals, initial_value, params, rng))
        /\ UNCHANGED <<lifeGoals, lifeEvents, simConfig, lastOp, ledger, assetBook>>

\* simulator.sensitivity_analysis(initial_value, goal_amount, years)
SensitivityAnalysis(initial_value, goal_amount, years) ==
    LET Returned(out) ==
            /\ result' = [op |-> "sensitivity_analysis", rng_before |-> rng,
                          initial_value |-> initial_value,
                          goal_amount |-> goal_amount, years |-> years,
                          raised |-> FALSE, out |-> out]
            /\ rng' = out.rng
    IN  /\ result = Idle
        /\ Returned(sensitivity_analysis(initial_value, goal_amount, years, rng))
        /\ UNCHANGED <<lifeGoals, lifeEvents, simConfig, lastOp, ledger, assetBook>>

NextStrategy ==
    \/ \E e \in LifeEvents : CreateLifeEvent(e)
    \/ \E i \in 1..MaxEvents, e \in LifeEvents : UpdateLifeEvent(i, e)
    \/ \E i \in 1..MaxEvents : DeleteLifeEvent(i)
    \/ \E c \in SimulationConfigs : SaveSimulationConfig(c)
    \/ GetLifeEventsProgress
    \/ GetGoalProbability
    \/ Return

SpecStrategy == Init /\ [][NextStrategy]_vars

NextProgress ==
    \/ \E t \in ProgressTargets, f \in ProgressFunded, c \in ProgressContributions,
          n \in ProgressMonths, r \in ProgressReturns :
          CalculateGoalProgress(t, f, c, n, r)
    \/ Return

SpecProgress == Init /\ [][NextProgress]_vars

\* The goals the simulation is run with
SimGoalTargets == {0, 3}
SimGoalDates == {<<2025, 6, 15>>, <<2026, 7, 20>>}

NextSim ==
    \/ \E t \in SimGoalTargets, d \in SimGoalDates : CreateGoal(t, d)
    \/ \E i \in 1..MaxGoals : DeleteGoal(i)
    \/ \E v \in InitialValues, p \in SimulationParamSets : RunSimulation(v, p)
    \/ Return

SpecSim == Init /\ [][NextSim]_vars

\* Both goal sets, their figures asked for as goals come and go
NoGoalsEvents == {e \in LifeEvents : e.target_amount = R(640) /\ e.funded_amount = R(0)}
NoGoalsParams ==
    {SimulationParams(R(0), R(1), R(1), n, 1, R(1), R(1)) : n \in 1..MaxSims}

NextNoGoals ==
    \/ \E e \in NoGoalsEvents : CreateLifeEvent(e)
    \/ \E i \in 1..MaxEvents : DeleteLifeEvent(i)
    \/ GetGoalProbability
    \/ CreateGoal(3, <<2026, 7, 20>>)
    \/ \E i \in 1..MaxGoals : DeleteGoal(i)
    \/ \E p \in NoGoalsParams : RunSimulation(R(0), p)
    \/ Return

SpecNoGoals == Init /\ [][NextNoGoals]_vars

\* Runs of the simulation one after the other, each leaving the generator
\* where its last draw left it
NextSeed ==
    \/ \E t \in SimGoalTargets, d \in SimGoalDates : CreateGoal(t, d)
    \/ \E i \in 1..MaxGoals : DeleteGoal(i)
    \/ \E v \in InitialValues, p \in NoGoalsParams : RunSimulation(v, p)
    \/ Return

SpecSeed == Init /\ [][NextSeed]_vars

\* Goals and life events without a target next to others: the goals page, the
\* purchase audit, the life-event endpoints and direct calls of
\* calculate_goal_progress with target_amount = 0
ZeroTargetGoals == {0, 500000}
ZeroTargetEvents ==
    {e \in LifeEvents :
        \/ e.target_amount = R(0) /\ e.funded_amount = R(1280)
        \/ e.target_amount = R(640) /\ e.funded_amount = R(0)
              /\ e.target_date = <<2025, 8, 1>>}

NextZeroTarget ==
    \/ \E t \in ZeroTargetGoals : CreateGoal(t, <<2026, 7, 20>>)
    \/ \E i \in 1..MaxGoals : DeleteGoal(i)
    \/ \E p \in Prices : AuditPurchase(p, <<5, 1>>, None, None, None)
    \/ \E e \in ZeroTargetEvents : CreateLifeEvent(e)
    \/ \E i \in 1..MaxEvents : DeleteLifeEvent(i)
    \/ GetGoalProbability
    \/ \E f \in {R(0), R(576)}, n \in ProgressMonths, r \in {R(0), R(5)} :
          CalculateGoalProgress(R(0), f, R(100), n, r)
    \/ Return

SpecZeroTarget == Init /\ [][NextZeroTarget]_vars

\* Goals due in 5 days, in 169 days and in 400 days, and runs over them
HorizonDates == {<<2025, 6, 20>>, <<2025, 12, 1>>, <<2026, 7, 20>>}

NextHorizon ==
    \/ \E dt \in HorizonDates : CreateGoal(3, dt)
    \/ \E i \in 1..MaxGoals : DeleteGoal(i)
    \/ \E v \in InitialValues, p \in NoGoalsParams : RunSimulation(v, p)
    \/ Return

SpecHorizon == Init /\ [][NextHorizon]_vars

\* The four projections among the edits of what they read
NextReadOnly ==
    \/ \E e \in NoGoalsEvents : CreateLifeEvent(e)
    \/ \E i \in 1..MaxEvents : DeleteLifeEvent(i)
    \/ \E c \in SimulationConfigs : SaveSimulationConfig(c)
    \/ CreateGoal(3, <<2026, 7, 20>>)
    \/ \E i \in 1..MaxGoals : DeleteGoal(i)
    \/ GetLifeEventsProgress
    \/ GetGoalProbability
    \/ \E p \in NoGoalsParams : RunSimulation(R(0), p)
    \/ \E p \in Prices : AuditPurchase(p, <<5, 1>>, None, None, None)
    \/ Return

SpecReadOnly == Init /\ [][NextReadOnly]_vars

\* The sensitivity analysis among runs of the simulation, each call leaving
\* the generator where its last draw left it
SensitivityGoals == {R(360000), R(600000)}
NextSensitivity ==
    \/ CreateGoal(3, <<2026, 7, 20>>)
    \/ \E i \in 1..MaxGoals : DeleteGoal(i)
    \/ \E v \in InitialValues, p \in NoGoalsParams : RunSimulation(v, p)
    \/ \E g \in SensitivityGoals, y \in {0, 1} : SensitivityAnalysis(R(0), g, y)
    \/ Return

SpecSensitivity == Init /\ [][NextSensitivity]_vars

----------------------------------------------------------------------------
(* Properties of the purchase audit *)

Audited == result.op = "audit_purchase" /\ ~result.raised

\* C1: an audit of a price below RECOGNITION_THRESHOLD decides GO, whatever the
\* liquid assets, monthly expenses, goal trade-offs and daily cost.
C1_BelowThresholdIsGo ==
    (Audited /\ result.price < RECOGNITION_THRESHOLD) => result.decision = "GO"

\* The spec's scenario: price 20,000, liquid assets 100,000, monthly expenses
\* 50,000, a post-purchase runway of 1.6 months, decided GO.
C1_Witness ==
    /\ Audited
    /\ result.price = 20000
    /\ result.new_runway = <<8, 5>>
    /\ result.decision = "GO"

\* C2 as stated: a cheap item whose post-purchase runway is under 3 months gets STOP.
C2_CheapCatastrophicStops ==
    (Audited /\ result.price < RECOGNITION_THRESHOLD /\ RLt(result.new_runway, R(3)))
        => result.decision = "STOP"

\* C2 amended: with a post-purchase runway under 3 months the decision is STOP
\* exactly when the price is at or above the recognition threshold; below it
\* the decision is GO.
C2_CatastrophicStopsFromThreshold ==
    (Audited /\ RLt(result.new_runway, R(3))) =>
        /\ (result.decision = "STOP") <=> (result.price >= RECOGNITION_THRESHOLD)
        /\ (result.price < RECOGNITION_THRESHOLD) => (result.decision = "GO")

C2_Witness ==
    /\ Audited
    /\ result.price = 30000
    /\ RLt(result.new_runway, R(3))
    /\ result.decision = "STOP"

\* The estimated probability drop of a goal: min(price / target * 100 * 0.5, 20)
EstimatedDrop(price, target) == RMin(Rat(price * 50, target), R(20))

SomeDropExceeds10(price) ==
    \E i \in 1..Len(lifeGoals) :
        /\ lifeGoals[i].target_amount > 0
        /\ RLt(R(10), EstimatedDrop(price, lifeGoals[i].target_amount))

\* C3: for a price at or above the threshold the decision is the first match of
\* STOP if runway < 3, WAIT if runway < 6, WAIT if some goal's estimated drop
\* exceeds 10, WAIT if daily cost > 500, else GO, with strict comparisons
\* throughout; STOP comes from the runway < 3 rule alone.
C3_FirstMatchRuleChain ==
    Audited =>
        /\ result.price >= RECOGNITION_THRESHOLD =>
              result.decision =
                  IF RLt(result.new_runway, R(3)) THEN "STOP"
                  ELSE IF RLt(result.new_runway, R(6)) THEN "WAIT"
                  ELSE IF SomeDropExceeds10(result.price) THEN "WAIT"
                  ELSE IF RLt(R(500), result.daily_cost) THEN "WAIT"
                  ELSE "GO"
        /\ result.decision = "STOP" =>
              (result.price >= RECOGNITION_THRESHOLD /\ RLt(result.new_runway, R(3)))

\* Every boundary at once: runway exactly 6, a drop of exactly 10, a daily cost
\* of exactly 500; all fall through to GO.
C3_Witness ==
    /\ Audited
    /\ result.price >= RECOGNITION_THRESHOLD
    /\ result.new_runway = R(6)
    /\ result.daily_cost = R(500)
    /\ \E i \in 1..Len(lifeGoals) :
          /\ lifeGoals[i].target_amount > 0
          /\ EstimatedDrop(result.price, lifeGoals[i].target_amount) = R(10)
    /\ result.decision = "GO"

----------------------------------------------------------------------------
(* Properties of the strategy service *)

Progressed == result.op = "calculate_goal_progress"
Aggregated == result.op = "calculate_overall_goal_probability"

\* C4: with months_remaining <= 0, calculate_goal_progress returns the funded
\* amount as projected_amount and min(100, funded/target*100) as probability,
\* and no monthly_contribution and no annual_return changes any field.
C4_ZeroHorizon ==
    (Progressed /\ result.months_remaining <= 0) =>
        /\ result.out.projected_amount = result.current_funded
        /\ RLt(R(0), result.target_amount) =>
              result.out.probability =
                  RMin(R(100), RMul(RDiv(result.current_funded, result.target_amount),
                                    R(100)))
        /\ \A c \in ProgressContributions, r \in ProgressReturns :
              calculate_goal_progress(result.target_amount, result.current_funded,
                                      c, result.months_remaining, r) = result.out

\* A due goal funded to 22.5 %, called with a contribution and a return rate
C4_Witness ==
    /\ Progressed
    /\ result.months_remaining <= 0
    /\ result.target_amount = R(2560)
    /\ result.current_funded = R(576)
    /\ result.monthly_contribution = R(200)
    /\ result.annual_return = R(600)
    /\ result.out.probability = Rat(45, 2)
    /\ result.out.projected_amount = R(576)

\* The weighted average as the specification writes it
WeightedAverage(goals) ==
    RDiv(Sum([k \in 1..Len(goals) |->
                RMul(goals[k].probability, goals[k].target_amount)]),
         Sum([k \in 1..Len(goals) |-> goals[k].target_amount]))

TargetSum(goals) == Sum([k \in 1..Len(goals) |-> goals[k].target_amount])
ProjectedSum(goals) == Sum([k \in 1..Len(goals) |-> goals[k].projected_amount])

\* C7 as stated: with a positive target sum, overall_probability equals
\* sum(probability_i * target_i) / sum(target_i), and the totals are plain sums.
C7_WeightedAverageExact ==
    (Aggregated /\ result.total_goals > 0 /\ RLt(R(0), TargetSum(result.goals))) =>
        /\ result.overall_probability = WeightedAverage(result.goals)
        /\ result.total_target = TargetSum(result.goals)
        /\ result.total_projected = ProjectedSum(result.goals)

\* C7 amended: with a positive target sum, overall_probability is the weighted
\* average sum(probability_i * target_i) / sum(target_i) rounded to one decimal
\* place (a multiple of 0.1 at most 0.05 away from it), and total_target and
\* total_projected are the plain sums.
C7_WeightedAverageRounded ==
    (Aggregated /\ result.total_goals > 0 /\ RLt(R(0), TargetSum(result.goals))) =>
        /\ RMul(result.overall_probability, R(10))[2] = 1
        /\ RLe(RSub(result.overall_probability, WeightedAverage(result.goals)),
               Rat(1, 20))
        /\ RLe(RSub(WeightedAverage(result.goals), result.overall_probability),
               Rat(1, 20))
        /\ result.total_target = TargetSum(result.goals)
        /\ result.total_projected = ProjectedSum(result.goals)

\* Three goals of different targets and probabilities whose weighted average
\* 69.4444... is reported as 69.4
C7_Witness ==
    /\ Aggregated
    /\ result.total_goals = 3
    /\ \E i, j \in 1..3 :
          /\ result.goals[i].target_amount = R(640)
          /\ result.goals[j].target_amount = R(2560)
          /\ result.goals[i].probability = R(100)
          /\ result.goals[j].probability = Rat(525, 8)
    /\ WeightedAverage(result.goals) = Rat(625, 9)
    /\ result.overall_probability = Rat(347, 5)
    /\ result.total_target = R(5760)

\* C8 as stated: when the goals' target amounts sum to 0, overall_probability
\* is 100, also for a non-empty goal set whose targets are all 0.
C8_ZeroTargetSumIsHundred ==
    (Aggregated /\ TargetSum(result.goals) = R(0)) =>
        result.overall_probability = R(100)

Reordered(events, q) == [k \in 1..Len(events) |-> events[q[k]]]

\* C9 as stated: the same goals listed in any order give the same
\* overall_probability, total_goals, total_target and total_projected.
C9_OrderIndependent ==
    Aggregated =>
        \A q \in Permutations(1..Len(lifeEvents)) :
           LET other == calculate_overall_goal_probability(Reordered(lifeEvents, q),
                                                           simConfig)
           IN  /\ other.overall_probability = result.overall_probability
               /\ other.total_goals = result.total_goals
               /\ other.total_target = result.total_target
               /\ other.total_projected = result.total_projected

----------------------------------------------------------------------------
(* Properties of the simulation engine *)

Simulated == result.op = "run_simulation" /\ ~result.raised

\* C5 as stated, for the simulation engine: with the goals, the initial value,
\* every other parameter and the random draws the same, a larger
\* monthly_contribution gives no goal a smaller terminal value on any path and
\* no smaller success_probability.
C5_MonotoneInContribution ==
    Simulated =>
        \A c \in SimContributions :
           RLt(result.params.monthly_contribution, c) =>
              LET more == run_simulation(lifeGoals, result.initial_value,
                                         [result.params EXCEPT !.monthly_contribution = c],
                                         result.rng_before)
              IN  \A g \in 1..Len(result.out.goal_results) :
                     LET less_g == result.out.goal_results[g]
                         more_g == more.goal_results[g]
                     IN  /\ RLe(less_g.success_probability, more_g.success_probability)
                         /\ \A k \in 1..Len(less_g.goal_values) :
                               RLe(less_g.goal_values[k], more_g.goal_values[k])

\* C6: with no life events, calculate_overall_goal_probability returns
\* overall_probability 100, total_goals 0 and total_target 0; with no goals,
\* run_simulation returns overall_success_rate 100.  Both hold whether the set
\* has always been empty or has become empty by deletion.
C6_NoGoalsConvention ==
    /\ (Aggregated /\ lifeEvents = <<>>) =>
          /\ result.overall_probability = R(100)
          /\ result.total_goals = 0
          /\ result.total_target = R(0)
    /\ (result.op = "run_simulation" /\ lifeGoals = <<>>) =>
          /\ ~result.raised
          /\ result.out.goal_results = <<>>
          /\ result.out.overall_success_rate = R(100)

\* The figures asked for right after the last life event has been deleted
C6_Witness ==
    /\ lastOp = "delete_life_event"
    /\ Aggregated
    /\ lifeEvents = <<>>
    /\ result.overall_probability = R(100)
    /\ result.total_goals = 0

\* C10: run_simulation seeds the generator before its first draw, so its
\* result, the terminal values of _monte_carlo included, is the same in
\* whatever state earlier draws have left the generator.
C10_SeededDeterminism ==
    result.op = "run_simulation" =>
        \A r \in RngStates :
           /\ monte_carlo(result.initial_value, result.params, r)[1]
                 = result.out.projected_values
           /\ run_simulation(lifeGoals, result.initial_value, result.params, r)
                 = result.out

\* A run of two random paths with different terminal values, begun in a
\* generator state that earlier runs have left and that is not the seeded one
C10_Witness ==
    /\ Simulated
    /\ result.rng_before \notin {0, Seed(MonteCarloSeed)}
    /\ RLt(R(0), result.params.volatility)
    /\ Len(result.out.projected_values) = 2
    /\ result.out.projected_values[1] # result.out.projected_values[2]

\* C11: every GoalSimulationResult of _evaluate_goals, of a goal whose date
\* has passed or of a goal ahead, has
\* percentile_10 <= median_outcome <= percentile_90.
C11_PercentileOrdering ==
    Simulated =>
        \A g \in 1..Len(result.out.goal_results) :
           /\ RLe(result.out.goal_results[g].percentile_10,
                  result.out.goal_results[g].median_outcome)
           /\ RLe(result.out.goal_results[g].median_outcome,
                  result.out.goal_results[g].percentile_90)

\* A run over a goal whose date has passed and a goal ahead whose two paths
\* end apart, so that its three figures are all different
C11_Witness ==
    /\ Simulated
    /\ \E g \in 1..Len(result.out.goal_results) :
          result.out.goal_results[g].gap_analysis.kind = "passed"
    /\ \E g \in 1..Len(result.out.goal_results) :
          /\ Len(result.out.goal_results[g].goal_values) = 2
          /\ RLt(result.out.goal_results[g].percentile_10,
                 result.out.goal_results[g].median_outcome)
          /\ RLt(result.out.goal_results[g].median_outcome,
                 result.out.goal_results[g].percentile_90)

----------------------------------------------------------------------------
(* Properties of calculate_goal_progress *)

\* C12: with annual_return = 0 and months_remaining >= 1,
\* calculate_goal_progress's projected_amount is exactly
\* funded + monthly_contribution * months_remaining.
C12_ZeroRateDegeneracy ==
    (Progressed /\ result.annual_return = R(0) /\ result.months_remaining >= 1) =>
        result.out.projected_amount =
            RAdd(result.current_funded,
                 RMul(result.monthly_contribution, R(result.months_remaining)))

\* 576 funded and three contributions of 200 at rate 0: 1176
C12_Witness ==
    /\ Progressed
    /\ result.annual_return = R(0)
    /\ result.months_remaining = 3
    /\ result.current_funded = R(576)
    /\ result.monthly_contribution = R(200)
    /\ result.out.projected_amount = R(1176)

\* funded * (1+r)^n + contribution * (((1+r)^n - 1) / r), the last term
\* contribution * n when r = 0
AnnuityProjection(funded, contribution, n, r) ==
    RAdd(RMul(funded, RPow(RAdd(R(1), r), n)),
         IF r # R(0)
         THEN RMul(contribution, RDiv(RSub(RPow(RAdd(R(1), r), n), R(1)), r))
         ELSE RMul(contribution, R(n)))

\* C13 as stated: for months_remaining n >= 1 and every annual_return other
\* than 0, negative ones included, projected_amount is
\* funded*(1+r)^n + contribution*(((1+r)^n - 1)/r) with r = annual_return/100/12;
\* contribution*n is used only when r = 0.
C13_AnnuityForEveryRate ==
    (Progressed /\ result.months_remaining >= 1) =>
        result.out.projected_amount =
            AnnuityProjection(result.current_funded, result.monthly_contribution,
                              result.months_remaining,
                              RDiv(RDiv(result.annual_return, R(100)), R(12)))

InPercentRange(x) == RLe(R(0), x) /\ RLe(x, R(100))

\* C14 as stated: for every input, negative funded amounts or contributions and
\* annual returns with 1 + r < 0 included, progress_pct and probability of
\* calculate_goal_progress lie in [0, 100], and so do overall_probability and
\* every goal's success_probability.
C14_Clamped ==
    /\ Progressed =>
          /\ InPercentRange(result.out.progress_pct)
          /\ InPercentRange(result.out.probability)
    /\ Aggregated => InPercentRange(result.overall_probability)
    /\ Simulated =>
          \A g \in 1..Len(result.out.goal_results) :
             InPercentRange(result.out.goal_results[g].success_probability)

\* A division by zero leaves a value without a denominator
Defined(x) == x[2] # 0

\* C15: a goal with target_amount = 0 never causes an error.
\* calculate_goal_progress returns progress_pct 0 in both its branches without
\* dividing by zero, calculate_overall_goal_probability returns a result for
\* goal sets containing such goals, and the auditor's trade-off calculation
\* skips them.
C15_ZeroTargetNeverRaises ==
    /\ (Progressed /\ result.target_amount = R(0)) =>
          /\ result.out.progress_pct = R(0)
          /\ result.out.probability = R(0)
          /\ Defined(result.out.projected_amount)
          /\ Defined(result.out.shortfall)
    /\ (Aggregated /\ \E k \in 1..Len(lifeEvents) : lifeEvents[k].target_amount = R(0)) =>
          /\ Defined(result.overall_probability)
          /\ Defined(result.total_target)
          /\ Defined(result.total_projected)
          /\ result.total_goals = Len(lifeEvents)
          /\ \A k \in 1..Len(lifeEvents) :
                lifeEvents[k].target_amount = R(0) =>
                   /\ result.goals[k].progress_pct = R(0)
                   /\ Defined(result.goals[k].projected_amount)
    /\ (result.op = "audit_purchase"
           /\ \E k \in 1..Len(lifeGoals) : lifeGoals[k].target_amount = 0) =>
          /\ ~result.raised
          /\ \A k \in 1..Len(result.trade_offs) :
                lifeGoals[result.trade_offs[k].goal].target_amount > 0

\* An audit over a goal without a target and a goal of 500,000, with a trade-off
\* for the second alone, right after the probability over life events of which
\* one has no target was returned
C15_Witness ==
    /\ result.op = "audit_purchase"
    /\ ~result.raised
    /\ Len(lifeGoals) = 2
    /\ lifeGoals[1].target_amount = 0
    /\ lifeGoals[2].target_amount = 500000
    /\ Len(result.trade_offs) = 1
    /\ result.trade_offs[1].goal = 2
    /\ lastOp = "calculate_overall_goal_probability"
    /\ Len(lifeEvents) = 2
    /\ \E k \in 1..2 : lifeEvents[k].target_amount = R(0)

----------------------------------------------------------------------------
(* Properties of _evaluate_goals and the sample paths *)

PastDue(goal) == DaysBetween(goal.target_date, Today) <= 0

\* Two results that differ at most in the goal they name
SameButId(a, b) == [a EXCEPT !.goal_id = 0] = [b EXCEPT !.goal_id = 0]

\* The run that the run in result would have been without goal g
WithoutGoal(g) ==
    run_simulation(RemoveAt(lifeGoals, g), result.initial_value, result.params,
                   result.rng_before)

\* The results of run other, which lacks goal g, are those of the run in result
SameOtherGoals(g, other) ==
    /\ ~other.raised
    /\ other.rng = result.out.rng
    /\ Len(other.goal_results) = Len(result.out.goal_results) - 1
    /\ \A k \in 1..Len(other.goal_results) :
          SameButId(other.goal_results[k],
                    result.out.goal_results[IF k < g THEN k ELSE k + 1])

\* C16: for a goal with years_to_goal <= 0 (target_date <= today),
\* _evaluate_goals emits a "Goal date has passed" result with
\* success_probability 0 and zero median, percentiles and contribution needed,
\* and draws no random number for it: the results of the other goals are what
\* they would be without it.
C16_PastDueBranch ==
    Simulated =>
        \A g \in 1..Len(lifeGoals) :
           PastDue(lifeGoals[g]) =>
              /\ result.out.goal_results[g].gap_analysis.kind = "passed"
              /\ result.out.goal_results[g].success_probability = R(0)
              /\ result.out.goal_results[g].median_outcome = R(0)
              /\ result.out.goal_results[g].percentile_10 = R(0)
              /\ result.out.goal_results[g].percentile_90 = R(0)
              /\ result.out.goal_results[g].monthly_contribution_needed = R(0)
              /\ SameOtherGoals(g, WithoutGoal(g))

\* A run over a goal whose date has passed followed by a goal ahead, whose two
\* paths end apart
C16_Witness ==
    /\ Simulated
    /\ Len(lifeGoals) = 2
    /\ PastDue(lifeGoals[1])
    /\ ~PastDue(lifeGoals[2])
    /\ result.out.goal_results[1].gap_analysis.kind = "passed"
    /\ Len(result.out.goal_results[2].goal_values) = 2
    /\ result.out.goal_results[2].goal_values[1]
          # result.out.goal_results[2].goal_values[2]

\* Goal g is reached by the loop of the run in result: no goal before it raised
Reached(g) ==
    ~run_simulation(SubSeq(lifeGoals, 1, g - 1), result.initial_value,
                    result.params, result.rng_before).raised

\* C17 as stated: zero or negative horizons are never passed into the
\* compounding formulas.  For every goal, one whose date is ahead by less than a
\* year or less than a month included, _simulate_for_years is never run with 0
\* years and _calculate_required_contribution is never evaluated with
\* n_months = 0.
C17_NoZeroHorizon ==
    result.op = "run_simulation" =>
        \A g \in 1..Len(lifeGoals) :
           (~PastDue(lifeGoals[g]) /\ Reached(g)) =>
              \* years = int(years_to_goal) of _simulate_for_years
              /\ Trunc(YearsToGoal(lifeGoals[g])) >= 1
              \* n_months = int(years * 12) of _calculate_required_contribution
              /\ result.params.num_simulations > 0 =>
                    Trunc(RMul(YearsToGoal(lifeGoals[g]), R(12))) >= 1

\* nominal / (1 + inflation_rate)^years of each value
RealTerms(nominal, years) ==
    [k \in 1..Len(nominal) |->
        RDiv(nominal[k], RPow(RAdd(R(1), result.params.inflation_rate), years))]

\* The nominal end values of the paths simulated for goal g of the run in
\* result: the paths begin in the generator state the goals before g leave
NominalGoalValues(g) ==
    SamplePaths(result.params.num_simulations,
                Trunc(YearsToGoal(lifeGoals[g])) * 12,
                result.initial_value, result.params,
                run_simulation(SubSeq(lifeGoals, 1, g - 1), result.initial_value,
                               result.params, result.rng_before).rng)[1]

\* C18 as stated: every terminal value the simulator produces, in _monte_carlo
\* and in the per-goal _simulate_for_years whose values decide
\* success_probability and the percentiles, is the nominal end value deflated
\* to real terms, nominal / (1 + inflation_rate)^horizon_years.
C18_TerminalValuesDeflated ==
    Simulated =>
        /\ result.out.projected_values =
              RealTerms(SamplePaths(result.params.num_simulations,
                                    result.params.time_horizon_years * 12,
                                    result.initial_value, result.params,
                                    Seed(MonteCarloSeed))[1],
                        result.params.time_horizon_years)
        /\ \A g \in 1..Len(lifeGoals) :
              ~PastDue(lifeGoals[g]) =>
                 result.out.goal_results[g].goal_values =
                    RealTerms(NominalGoalValues(g), Trunc(YearsToGoal(lifeGoals[g])))

\* One month of a path whose month m adds
\* monthly_contribution * (1 + contribution_growth_rate)^floor(m/12), as a map
\* <<a, b, d>> of <<value, contrib>>: contrib is stepped up before the first
\* contribution of a new year, then added
YearlyMonthStep(month, params, s) ==
    <<RAdd(R(1), Normal(RDiv(params.expected_return, R(12)), params.volatility, s)),
      IF month > 0 /\ month % 12 = 0
      THEN RAdd(R(1), params.contribution_growth_rate) ELSE R(1),
      IF month > 0 /\ month % 12 = 0
      THEN RAdd(R(1), params.contribution_growth_rate) ELSE R(1)>>

\* The months lo .. hi - 1 of such a path begun in generator state s
RECURSIVE YearlyPathMonths(_, _, _, _)
YearlyPathMonths(lo, hi, params, s) ==
    IF hi <= lo THEN <<R(1), R(0), R(1)>>
    ELSE IF hi = lo + 1 THEN YearlyMonthStep(lo, params, RngAfter(s, lo))
    ELSE Then(YearlyPathMonths(lo, (lo + hi) \div 2, params, s),
              YearlyPathMonths((lo + hi) \div 2, hi, params, s))

\* The end value of such a path
YearlySteppedPath(n_months, initial, params, s) ==
    RAdd(RMul(YearlyPathMonths(0, n_months, params, s)[1], initial),
         RMul(YearlyPathMonths(0, n_months, params, s)[2], params.monthly_contribution))

\* C19 as stated: in every sample path the contribution added in month m
\* (0-based) is monthly_contribution * (1 + contribution_growth_rate)^floor(m/12):
\* each simulated year has exactly 12 contributions at one level, and the
\* step-up comes before the first contribution of the next year.
C19_YearlyStepUp ==
    Simulated =>
        \A k \in 1..Len(result.out.projected_values) :
           result.out.projected_values[k] =
              RDiv(YearlySteppedPath(result.params.time_horizon_years * 12,
                       result.initial_value, result.params,
                       RngAfter(Seed(MonteCarloSeed),
                                (k - 1) * result.params.time_horizon_years * 12)),
                   RPow(RAdd(R(1), result.params.inflation_rate),
                        result.params.time_horizon_years))

\* Path k of the run in result, computed after `drawn` draws have been taken
\* from the generator seeded in _monte_carlo
PathAfterDraws(drawn) ==
    RDiv(SamplePath(result.params.time_horizon_years * 12, result.initial_value,
                    result.params, RngAfter(Seed(MonteCarloSeed), drawn)),
         RPow(RAdd(R(1), result.params.inflation_rate),
              result.params.time_horizon_years))

\* The goal results of the run in result had _monte_carlo and
\* _calculate_trajectory run over h years, the goals, the initial value and
\* every other parameter being the same
GoalResultsOver(h) ==
    run_simulation(lifeGoals, result.initial_value,
                   [result.params EXCEPT !.time_horizon_years = h],
                   result.rng_before).goal_results

\* C20 as stated: the sample paths share no mutable state.  The value of path
\* k does not depend on the order in which the paths are computed: it is the
\* same when the paths are computed last to first, the paths after k drawing
\* before it.  The paths simulated for a goal do not depend on how many draws
\* another call consumed: the goal results are the same whatever the number of
\* draws _monte_carlo and _calculate_trajectory took before them, which
\* time_horizon_years alone decides.
C20_PathsIndependent ==
    Simulated =>
        /\ \A k \in 1..Len(result.out.projected_values) :
              result.out.projected_values[k] =
                 PathAfterDraws((Len(result.out.projected_values) - k)
                                * result.params.time_horizon_years * 12)
        /\ \A h \in {1, 2} : result.out.goal_results = GoalResultsOver(h)

-----------------------------------------------------------------------------
(* Properties of run_simulation as a whole *)

\* C21 as stated: run_simulation called with num_simulations = 0 or with a
\* negative volatility ends with an error; it returns no SimulationResult.
C21_InvalidPolicyFailsFast ==
    (/\ result.op = "run_simulation"
     /\ \/ result.params.num_simulations = 0
        \/ RLt(result.params.volatility, R(0)))
    => result.raised

\* The projections: get_life_events_with_progress,
\* calculate_overall_goal_probability, run_simulation and audit_purchase
Projections ==
    {"get_life_events_with_progress", "calculate_overall_goal_probability",
     "run_simulation", "audit_purchase"}

TargetWeightedSuccess(goal_results) ==
    RDiv(Sum([k \in 1..Len(goal_results) |->
                RMul(goal_results[k].success_probability,
                     R(goal_results[k].target_amount))]),
         Sum([k \in 1..Len(goal_results) |-> R(goal_results[k].target_amount)]))

\* C23 as stated: the overall_success_rate of a run over goals whose targets
\* sum to more than 0 is the average of the goals' success probabilities
\* weighted by target_amount / sum of the target amounts.
C23_OverallSuccessWeighted ==
    (/\ Simulated
     /\ Len(result.out.goal_results) > 0
     /\ RLt(R(0), Sum([k \in 1..Len(result.out.goal_results) |->
                         R(result.out.goal_results[k].target_amount)])))
    => result.out.overall_success_rate = TargetWeightedSuccess(result.out.goal_results)

-----------------------------------------------------------------------------
(* Properties of get_life_events_with_progress *)

Listed == result.op = "get_life_events_with_progress"

\* The contribution entry k of the list in result is to be projected with:
\* the event's own if it has one, else the monthly savings of the config
\* (saved or default) divided by the number of life events
ContributionOf(k) ==
    IF lifeEvents[k].monthly_contribution # R(0)
    THEN lifeEvents[k].monthly_contribution
    ELSE RDiv(IF simConfig = None THEN R(DefaultMonthlySavings)
              ELSE simConfig[1].monthly_savings,
              R(Len(lifeEvents)))

\* C24: in the list of get_life_events_with_progress an event without a
\* monthly contribution of its own (the column's default 0) is projected with
\* the monthly savings figure split evenly over all the client's life events,
\* an event with one with exactly its own: the entry reports that
\* contribution, and its projected_amount is the one calculate_goal_progress
\* gives for it.
C24_ContributionSplit ==
    Listed =>
        /\ Len(result.events) = Len(lifeEvents)
        /\ \A k \in 1..Len(lifeEvents) :
              /\ result.events[k].monthly_contribution = ContributionOf(k)
              /\ result.events[k].projected_amount =
                    calculate_goal_progress(
                        lifeEvents[k].target_amount, lifeEvents[k].funded_amount,
                        ContributionOf(k),
                        MonthsRemaining(lifeEvents[k].target_date, Today),
                        IF simConfig = None THEN R(DefaultAnnualReturn)
                        ELSE simConfig[1].annual_return).projected_amount

\* Three events are listed, one with a contribution of 100 of its own and one
\* ahead without: that one is projected with a third of the savings of 600
C24_Witness ==
    /\ Listed
    /\ Len(lifeEvents) = 3
    /\ simConfig # None
    /\ \E j, k \in 1..3 :
          /\ j # k
          /\ lifeEvents[j].monthly_contribution = R(0)
          /\ lifeEvents[k].monthly_contribution = R(100)
          /\ MonthsRemaining(lifeEvents[j].target_date, Today) > 0
          /\ result.events[j].monthly_contribution = R(200)
          /\ RLt(lifeEvents[j].funded_amount, result.events[j].projected_amount)
          /\ result.events[k].monthly_contribution = R(100)

-----------------------------------------------------------------------------
(* Properties of audit_purchase as a whole *)

\* C30 as stated: audit_purchase returns a result with a decision, and does
\* not raise, for every price >= 0 and every lifespan_years > 0, a lifespan of
\* less than a day (lifespan_years * 365 < 1) and a price below the
\* recognition threshold included.
C30_AuditNeverRaises ==
    (/\ result.op = "audit_purchase"
     /\ result.price >= 0
     /\ RLt(R(0), result.lifespan_years))
    => /\ ~result.raised
       /\ result.decision \in {"GO", "WAIT", "STOP"}

-----------------------------------------------------------------------------
(* Properties of the calls of _simulate_for_years *)

\* The probabilities of a sensitivity analysis, in the order of its scenarios
ScenarioProbabilities(analysis) ==
    [j \in 1..Len(analysis.return_sensitivity) |->
        analysis.return_sensitivity[j].probability]
    \o [j \in 1..Len(analysis.contribution_sensitivity) |->
        analysis.contribution_sensitivity[j].probability]

\* C29 as stated: the per-goal results of _evaluate_goals and the
\* probabilities of sensitivity_analysis are those of the call's arguments and
\* the goals alone: they are the same in whatever state the simulation calls
\* before have left the generator.
C29_SimulateForYearsDeterministic ==
    /\ Simulated =>
          \A r \in RngStates :
             run_simulation(lifeGoals, result.initial_value, result.params,
                            r).goal_results = result.out.goal_results
    /\ result.op = "sensitivity_analysis" =>
          \A r \in RngStates :
             ScenarioProbabilities(sensitivity_analysis(result.initial_value,
                                                result.goal_amount, result.years, r))
                = ScenarioProbabilities(result.out)

-----------------------------------------------------------------------------
(* The ledger of the backend: accounts, transactions and journal entries *)

\* Bounds of the ledger: rows of the transactions table at one time, and the
\* largest magnitude of an account balance
MaxTransactions == 2
MaxBalance == 3

\* str.lower() on the account names the transactions below use
Lower(name) ==
    CASE name = "Cash" -> "cash"
      [] name = "Food" -> "food"
      [] OTHER -> name

\* `name or dflt` of an optional string: None and the empty string are falsy
StrOr(opt, dflt) ==
    IF opt = None THEN dflt ELSE IF opt[1] = "" THEN dflt ELSE opt[1]

\* get_or_create_account: the first account named name.lower(), else a new
\* account of that name with the given type and the column's default balance
get_or_create_account(accts, name, account_type) ==
    LET found == {i \in 1..Len(accts) : accts[i].name = Lower(name)}
    IN  IF found # {}
        THEN [accounts |-> accts, id |-> CHOOSE i \in found : \A j \in found : i <= j]
        ELSE [accounts |-> Append(accts, [name |-> Lower(name),
                                          account_type |-> account_type,
                                          balance |-> 0]),
              id |-> Len(accts) + 1]

\* account.balance += delta
AddBalance(accts, id, delta) == [accts EXCEPT ![id].balance = @ + delta]

\* process_transaction with the credit entry left out
process_transaction_unbalanced(accts, entries, transaction) ==
    LET from_account == get_or_create_account(accts, StrOr(transaction.from_account, "cash"), "asset")
        to_account ==
            IF transaction.type = "Income"
            THEN get_or_create_account(from_account.accounts, StrOr(transaction.category, "expense"), "income")
            ELSE IF transaction.type = "Expense"
            THEN get_or_create_account(from_account.accounts, StrOr(transaction.category, "expense"), "expense")
            ELSE get_or_create_account(from_account.accounts, StrOr(transaction.to_account, "expense"), "asset")
        debit_entry ==
            [transaction_id |-> transaction.id,
             account_id |-> IF transaction.type = "Income" THEN from_account.id ELSE to_account.id,
             debit |-> transaction.amount, credit |-> 0]
    IN  [accounts |->
            IF transaction.type = "Income"
            THEN AddBalance(to_account.accounts, from_account.id, transaction.amount)
            ELSE IF transaction.type = "Expense"
            THEN AddBalance(to_account.accounts, from_account.id, 0 - transaction.amount)
            ELSE AddBalance(AddBalance(to_account.accounts, from_account.id, 0 - transaction.amount),
                            to_account.id, transaction.amount),
         journalEntries |-> entries \o <<debit_entry>>]

\* process_transaction: the accounts and the journal entries after the
\* transaction is booked. Income debits the from account and credits the
\* category account; Expense debits the category account and credits the from
\* account; any other type debits the to account and credits the from account.
process_transaction(accts, entries, transaction) ==
    LET from_account == get_or_create_account(accts, StrOr(transaction.from_account, "cash"), "asset")
        to_account ==
            IF transaction.type = "Income"
            THEN get_or_create_account(from_account.accounts, StrOr(transaction.category, "expense"), "income")
            ELSE IF transaction.type = "Expense"
            THEN get_or_create_account(from_account.accounts, StrOr(transaction.category, "expense"), "expense")
            ELSE get_or_create_account(from_account.accounts, StrOr(transaction.to_account, "expense"), "asset")
        debit_entry ==
            [transaction_id |-> transaction.id,
             account_id |-> IF transaction.type = "Income" THEN from_account.id ELSE to_account.id,
             debit |-> transaction.amount, credit |-> 0]
        credit_entry ==
            [transaction_id |-> transaction.id,
             account_id |-> IF transaction.type = "Income" THEN to_account.id ELSE from_account.id,
             debit |-> 0, credit |-> transaction.amount]
    IN  [accounts |->
            IF transaction.type = "Income"
            THEN AddBalance(to_account.accounts, from_account.id, transaction.amount)
            ELSE IF transaction.type = "Expense"
            THEN AddBalance(to_account.accounts, from_account.id, 0 - transaction.amount)
            ELSE AddBalance(AddBalance(to_account.accounts, from_account.id, 0 - transaction.amount),
                            to_account.id, transaction.amount),
         journalEntries |-> entries \o <<debit_entry, credit_entry>>]

\* The request bodies of POST /transactions the model posts (TransactionCreate)
TransactionCreates ==
    {[amount |-> 1, type |-> "Expense", category |-> Some("Food"),
      from_account |-> None, to_account |-> None],
     [amount |-> 2, type |-> "Income", category |-> Some("salary"),
      from_account |-> Some("bank"), to_account |-> None],
     [amount |-> 1, type |-> "Transfer", category |-> None,
      from_account |-> Some("Cash"), to_account |-> Some("bank")],
     [amount |-> 2, type |-> "Transfer", category |-> Some(""),
      from_account |-> Some(""), to_account |-> None]}

\* The id a new row of the transactions table gets (INTEGER PRIMARY KEY:
\* one more than the largest id in the table)
NextTransactionId ==
    IF transactions = <<>> THEN 1 ELSE transactions[Len(transactions)].id + 1

\* POST /transactions: ensure_default_accounts takes the session alone, so
\* the call with client_id raises TypeError before anything is written
CreateTransaction(transaction) ==
    /\ result = Idle
    /\ result' = [op |-> "create_transaction", raised |-> TRUE]
    /\ UNCHANGED <<lifeGoals, lifeEvents, simConfig, rng, lastOp, ledger, assetBook>>

\* The row of a transaction is added and committed, and process_transaction
\* books it (the body of create_transaction after its first statement, and of
\* process_recurring_transaction)
RecordTransaction(transaction) ==
    LET db_transaction == [id |-> NextTransactionId] @@ transaction
        booked == process_transaction(accounts, journalEntries, db_transaction)
    IN  /\ result = Idle
        /\ Len(transactions) < MaxTransactions
        /\ \A i \in 1..Len(booked.accounts) :
              /\ booked.accounts[i].balance <= MaxBalance
              /\ booked.accounts[i].balance >= 0 - MaxBalance
        /\ transactions' = Append(transactions, db_transaction)
        /\ accounts' = booked.accounts
        /\ journalEntries' = booked.journalEntries
        /\ lastRecorded' = <<db_transaction.id, accounts>>
        /\ result' = [op |-> "process_transaction", raised |-> FALSE,
                      transaction_id |-> db_transaction.id]
        /\ UNCHANGED <<lifeGoals, lifeEvents, simConfig, rng, lastOp, assetBook>>

\* DELETE /transactions/{transaction_id}: 404 when there is no such row, else
\* the journal entries of the transaction and its row are deleted
DeleteTransaction(transaction_id) ==
    /\ result = Idle
    /\ IF \E i \in 1..Len(transactions) : transactions[i].id = transaction_id
       THEN /\ journalEntries' = SelectSeq(journalEntries,
                                     LAMBDA e : e.transaction_id # transaction_id)
            /\ transactions' = SelectSeq(transactions, LAMBDA t : t.id # transaction_id)
            /\ result' = [op |-> "delete_transaction", raised |-> FALSE,
                          transaction_id |-> transaction_id]
       ELSE /\ UNCHANGED <<journalEntries, transactions>>
            /\ result' = [op |-> "delete_transaction", raised |-> TRUE,
                          transaction_id |-> transaction_id]
    /\ UNCHANGED <<lifeGoals, lifeEvents, simConfig, rng, lastOp, accounts,
                   lastRecorded, assetBook>>

NextLedger ==
    \/ \E t \in TransactionCreates : CreateTransaction(t)
    \/ \E t \in TransactionCreates : RecordTransaction(t)
    \/ \E i \in 1..(MaxTransactions + 1) : DeleteTransaction(i)
    \/ Return

SpecLedger == Init /\ [][NextLedger]_vars

-----------------------------------------------------------------------------
(* Properties of process_transaction *)

\* The total of a column (debit or credit) over the first k journal entries
RECURSIVE ColumnTotal(_, _, _)
ColumnTotal(entries, column, k) ==
    IF k = 0 THEN 0 ELSE ColumnTotal(entries, column, k - 1) + entries[k][column]

\* The journal entries of a transaction
EntriesOf(transaction_id) ==
    SelectSeq(journalEntries, LAMBDA e : e.transaction_id = transaction_id)

\* C25: every processed transaction has exactly one debit entry and exactly
\* one credit entry, both of the transaction's amount, and the total of all
\* debits equals the total of all credits.
C25_DoubleEntryBalance ==
    /\ \A i \in 1..Len(transactions) :
          LET mine == EntriesOf(transactions[i].id)
          IN  /\ Len(mine) = 2
              /\ \E d, c \in 1..2 :
                    /\ d # c
                    /\ mine[d].debit = transactions[i].amount /\ mine[d].credit = 0
                    /\ mine[c].credit = transactions[i].amount /\ mine[c].debit = 0
    /\ ColumnTotal(journalEntries, "debit", Len(journalEntries))
          = ColumnTotal(journalEntries, "credit", Len(journalEntries))

\* Two transactions of different types are booked: four entries, and the
\* totals are those of the two amounts
C25_Witness ==
    /\ Len(transactions) = 2
    /\ transactions[1].type # transactions[2].type
    /\ Len(journalEntries) = 4
    /\ ColumnTotal(journalEntries, "debit", 4)
          = transactions[1].amount + transactions[2].amount
    /\ result # Idle /\ result.op = "process_transaction"

-----------------------------------------------------------------------------
(* Properties of create_transaction followed by delete_transaction *)

\* The transaction recorded last has just been deleted: its recording was the
\* operation that returned before, and the deletion found its row
DeletedAfterCreate ==
    /\ result # Idle /\ result.op = "delete_transaction" /\ ~result.raised
    /\ lastOp = "process_transaction"
    /\ lastRecorded # <<>>
    /\ result.transaction_id = lastRecorded[1]

\* C26 as stated: after a transaction is created and then deleted, every
\* account balance equals its value before the create (an account the create
\* added holds the default balance 0), and the journal entries of the
\* transaction are gone.
C26_CreateDeleteRoundTrip ==
    DeletedAfterCreate =>
        /\ \A i \in 1..Len(accounts) :
              accounts[i].balance =
                 IF i <= Len(lastRecorded[2]) THEN lastRecorded[2][i].balance ELSE 0
        /\ EntriesOf(lastRecorded[1]) = <<>>

-----------------------------------------------------------------------------
(* Depreciation of durable assets (core/depreciation.py) *)

\* Bound: rows of the asset_position table
MaxPositions == 2

\* The Add Asset form: the AssetPosition row it stores. A lifespan of 0 years
\* and a salvage value of 0 are stored as NULL.
AssetPosition(quantity, acquisition_price, acquisition_date, lifespan_years, salvage_value) ==
    [quantity |-> R(quantity),
     acquisition_price |-> R(acquisition_price),
     acquisition_date |-> acquisition_date,
     lifespan_days |-> IF RLt(R(0), lifespan_years)
                       THEN Some(Trunc(RMul(lifespan_years, R(365)))) ELSE None,
     salvage_value |-> IF salvage_value > 0 THEN Some(R(salvage_value)) ELSE None,
     status |-> "ACTIVE"]

\* The forms the model submits: a 36-day asset bought in mid-January, a
\* 182-day asset with a salvage value bought on the first of February, an
\* asset without a lifespan, and one whose lifespan is less than a day
AssetForms ==
    {AssetPosition(1, 3600, <<2025, 1, 15>>, Rat(1, 10), 0),
     AssetPosition(2, 1000, <<2025, 2, 1>>, Rat(1, 2), 100),
     AssetPosition(1, 500, <<2025, 1, 1>>, R(0), 0),
     AssetPosition(1, 500, <<2025, 3, 10>>, Rat(1, 1000), 0)}

\* The months for which depreciation is generated: <<year, month>>
DepreciationMonths == {<<2024, 12>>, <<2025, 1>>, <<2025, 2>>, <<2025, 3>>}

\* acquisition_price * quantity - (salvage_value or 0)
DepreciableAmount(asset) ==
    RSub(RMul(asset.acquisition_price, asset.quantity),
         OrDefault(asset.salvage_value, R(0)))

\* Decimal.quantize(Decimal('0.01'), rounding=ROUND_HALF_UP)
QuantizeCents(a) == Rat(RoundHalfUp(RMul(a, R(100))), 100)

\* _calculate_asset_depreciation (straight line). Dates are ordinals. The
\* division raises when lifespan_days is 0.
calculate_asset_depreciation(asset, as_of) ==
    IF asset.lifespan_days[1] = 0 THEN [raised |-> TRUE]
    ELSE
    LET acquisition_price == RMul(asset.acquisition_price, asset.quantity)
        salvage_value == OrDefault(asset.salvage_value, R(0))
        lifespan_days == asset.lifespan_days[1]
        depreciable_amount == RSub(acquisition_price, salvage_value)
        daily_depreciation == QuantizeCents(RDiv(depreciable_amount, R(lifespan_days)))
        elapsed == as_of - ToOrdinal(asset.acquisition_date)
        days_elapsed == IF elapsed < 0 THEN 0 ELSE elapsed
        accumulated == RMin(RMul(daily_depreciation, R(days_elapsed)), depreciable_amount)
        current_book_value == RMax(RSub(acquisition_price, accumulated), salvage_value)
        remaining_days == IF lifespan_days - days_elapsed < 0 THEN 0
                          ELSE lifespan_days - days_elapsed
    IN  [raised |-> FALSE,
         acquisition_price |-> acquisition_price,
         salvage_value |-> salvage_value,
         lifespan_days |-> lifespan_days,
         daily_depreciation |-> daily_depreciation,
         current_book_value |-> current_book_value,
         accumulated_depreciation |-> accumulated,
         remaining_days |-> remaining_days,
         replacement_date |-> ToOrdinal(asset.acquisition_date) + lifespan_days,
         is_fully_depreciated |-> remaining_days = 0 \/ RLe(current_book_value, salvage_value)]

\* The first and the last day of a month and the number of its days
MonthStart(year, month) == ToOrdinal(<<year, month, 1>>)
NextMonthStart(year, month) ==
    IF month = 12 THEN ToOrdinal(<<year + 1, 1, 1>>) ELSE ToOrdinal(<<year, month + 1, 1>>)
MonthEnd(year, month) == NextMonthStart(year, month) - 1
DaysInMonth(year, month) == NextMonthStart(year, month) - MonthStart(year, month)

\* The DEPRECIATION transactions of an asset dated in the month
ExistingInMonth(txs, asset_id, year, month) ==
    SelectSeq(txs, LAMBDA t : /\ t.type = "DEPRECIATION"
                              /\ t.asset_position_id = asset_id
                              /\ t.transaction_date >= MonthStart(year, month)
                              /\ t.transaction_date <= MonthEnd(year, month))

\* The loop body of generate_depreciation_transactions without the lookup of
\* an existing transaction
DepreciateAsset_unchecked(asset, asset_id, txs, month, year) ==
    LET schedule == calculate_asset_depreciation(asset, MonthEnd(year, month))
    IN  IF schedule.raised THEN [raised |-> TRUE, created |-> <<>>]
        ELSE IF schedule.replacement_date < MonthStart(year, month)
        THEN [raised |-> FALSE, created |-> <<>>]
        ELSE [raised |-> FALSE,
              created |-> <<[transaction_date |-> MonthEnd(year, month),
                             type |-> "DEPRECIATION",
                             amount |-> RMul(schedule.daily_depreciation,
                                             R(DaysInMonth(year, month))),
                             asset_position_id |-> asset_id]>>]

\* The loop body of generate_depreciation_transactions for one depreciable
\* asset: nothing when the asset was replaced before the month or has a
\* DEPRECIATION transaction in it, else one transaction dated at the month's
\* end of daily_depreciation * days_in_month
DepreciateAsset(asset, asset_id, txs, month, year) ==
    LET schedule == calculate_asset_depreciation(asset, MonthEnd(year, month))
    IN  IF schedule.raised THEN [raised |-> TRUE, created |-> <<>>]
        ELSE IF schedule.replacement_date < MonthStart(year, month)
        THEN [raised |-> FALSE, created |-> <<>>]
        ELSE IF ExistingInMonth(txs, asset_id, year, month) # <<>>
        THEN [raised |-> FALSE, created |-> <<>>]
        ELSE [raised |-> FALSE,
              created |-> <<[transaction_date |-> MonthEnd(year, month),
                             type |-> "DEPRECIATION",
                             amount |-> RMul(schedule.daily_depreciation,
                                             R(DaysInMonth(year, month))),
                             asset_position_id |-> asset_id]>>]

\* The asset is selected by the query: active, with a lifespan, acquired by
\* the end of the month
Depreciable(asset, month, year) ==
    /\ asset.status = "ACTIVE"
    /\ asset.lifespan_days # None
    /\ ToOrdinal(asset.acquisition_date) <= MonthEnd(year, month)

\* The loop over the first k assets: the transactions created so far, or the
\* exception that ended the call
RECURSIVE DepreciateTo(_, _, _, _, _)
DepreciateTo(posns, txs, month, year, k) ==
    IF k = 0 THEN [raised |-> FALSE, created |-> <<>>]
    ELSE LET earlier == DepreciateTo(posns, txs, month, year, k - 1)
         IN  IF earlier.raised \/ ~Depreciable(posns[k], month, year) THEN earlier
             ELSE LET turn == DepreciateAsset(posns[k], k, txs \o earlier.created, month, year)
                  IN  [raised |-> turn.raised, created |-> earlier.created \o turn.created]

\* generate_depreciation_transactions(month, year, commit=True): the list it
\* returns and the transaction table after it; nothing is committed when it
\* raises
generate_depreciation_transactions(posns, txs, month, year) ==
    LET generated == DepreciateTo(posns, txs, month, year, Len(posns))
    IN  IF generated.raised THEN [raised |-> TRUE, transactions |-> <<>>, table |-> txs]
        ELSE [raised |-> FALSE, transactions |-> generated.created,
              table |-> txs \o generated.created]

\* The Add Asset form is submitted
AddAsset(pos) ==
    /\ result = Idle
    /\ Len(positions) < MaxPositions
    /\ positions' = Append(positions, pos)
    /\ result' = [op |-> "add_asset", raised |-> FALSE]
    /\ UNCHANGED <<lifeGoals, lifeEvents, simConfig, rng, lastOp, ledger, assetTransactions>>

GenerateDepreciation(month, year) ==
    LET out == generate_depreciation_transactions(positions, assetTransactions, month, year)
    IN  /\ result = Idle
        /\ assetTransactions' = out.table
        /\ result' = [op |-> "generate_depreciation_transactions", raised |-> out.raised,
                      month |-> month, year |-> year, transactions |-> out.transactions]
        /\ UNCHANGED <<lifeGoals, lifeEvents, simConfig, rng, lastOp, ledger, positions>>

NextDepreciation ==
    \/ \E pos \in AssetForms : AddAsset(pos)
    \/ \E m \in DepreciationMonths : GenerateDepreciation(m[2], m[1])
    \/ Return

SpecDepreciation == Init /\ [][NextDepreciation]_vars

-----------------------------------------------------------------------------
(* Properties of generate_depreciation_transactions *)

\* A call of generate_depreciation_transactions has ended without an exception
Generated ==
    /\ result # Idle
    /\ result.op = "generate_depreciation_transactions"
    /\ ~result.raised

\* C27: generate_depreciation_transactions is idempotent. In every state each
\* asset has at most one DEPRECIATION transaction dated in any one month, and
\* after a call for a month a repeated call for that month returns no
\* transaction and leaves the transaction table as it is.
C27_GenerateIdempotent ==
    /\ \A k \in 1..Len(positions) : \A m \in DepreciationMonths :
          Len(ExistingInMonth(assetTransactions, k, m[1], m[2])) <= 1
    /\ Generated =>
          LET again == generate_depreciation_transactions(positions, assetTransactions,
                                                          result.month, result.year)
          IN  /\ ~again.raised
              /\ again.transactions = <<>>
              /\ again.table = assetTransactions

\* A month is generated a second time, with two depreciable assets that both
\* have their transaction of the month already: the call returns none
C27_Witness ==
    /\ Generated
    /\ lastOp = "generate_depreciation_transactions"
    /\ result.transactions = <<>>
    /\ Len(positions) = 2
    /\ \A k \in 1..2 :
          Len(ExistingInMonth(assetTransactions, k, result.year, result.month)) = 1

\* The DEPRECIATION amounts generated for an asset, summed over the first k
\* rows of the transaction table
RECURSIVE DepreciationTotal(_, _, _)
DepreciationTotal(txs, asset_id, k) ==
    IF k = 0 THEN R(0)
    ELSE IF txs[k].type = "DEPRECIATION" /\ txs[k].asset_position_id = asset_id
         THEN RAdd(DepreciationTotal(txs, asset_id, k - 1), txs[k].amount)
         ELSE DepreciationTotal(txs, asset_id, k - 1)

\* C28 as stated: whatever months have been generated, the DEPRECIATION
\* amounts of an asset add up to no more than its depreciable amount
\* (acquisition_price * quantity - salvage_value).
C28_DepreciationBounded ==
    \A k \in 1..Len(positions) :
        RLe(DepreciationTotal(assetTransactions, k, Len(assetTransactions)),
            DepreciableAmount(positions[k]))

====
